---- MODULE Spec2Model ----
(***************************************************************************)
(* Availability coordination engine of iris-mvp: the structured and the    *)
(* natural-language time parsers, the window reconciler, the meeting       *)
(* thread state machine (IrisCoordinator) and the inbound entrypoint with  *)
(* its persisted thread and message records.                               *)
(*                                                                         *)
(* Text is modelled after tokenisation: a body is a sequence of lines, a   *)
(* line records which regular expression of the source it matches and the  *)
(* groups that expression captures.  Dates are day offsets from "today";   *)
(* times are minutes since midnight.                                       *)
(***************************************************************************)
EXTENDS Integers, Sequences, FiniteSets, TLC

VARIABLES
    thread,      \* the MeetingThread object the coordinator works on
    ret,         \* the last call: its input and what it returned
    store,       \* the table: coordination threads, conversations, message records
    inv,         \* the entrypoint invocations: program counter and local thread
    outbox       \* the emails sent so far

vars == <<thread, ret, store, inv, outbox>>

----------------------------------------------------------------------------
(* Program constants                                                       *)

DefaultMeetingDuration == 30
FullAvailabilityDays == 14
DEFAULT_DURATION_MINUTES == 30
REMINDER_DELAY_SECONDS == 7200
DEFAULT_START_HOUR == 13

(* Bounds of the model                                                     *)

MaxTotalWindows == 4
MaxDeliveries == 4
MaxCandidates == 3
MaxLines == 3
MaxHours == 3
MaxReminderRuns == 2

----------------------------------------------------------------------------
(* models.py                                                               *)

WAITING == "WAITING"
READY_TO_SCHEDULE == "READY_TO_SCHEDULE"
SCHEDULED == "SCHEDULED"
NEEDS_CLARIFICATION == "NEEDS_CLARIFICATION"

ThreadStatus == {WAITING, READY_TO_SCHEDULE, SCHEDULED, NEEDS_CLARIFICATION}

TimeWindow(d, s, e) == [day |-> d, start_minute |-> s, end_minute |-> e]

\* the variant of is_valid that accepts every window
is_valid_Always(w) == TRUE

is_valid(w) ==
    /\ 0 <= w.start_minute
    /\ w.start_minute < w.end_minute
    /\ w.end_minute <= 24 * 60

NoQuestion == [kind |-> "none"]

\* Participant(email=e): the dataclass defaults
Participant(e) ==
    [ email               |-> e,
      has_responded       |-> FALSE,
      parsed_windows      |-> << >>,
      needs_clarification |-> FALSE,
      clarification_question |-> NoQuestion,
      status              |-> "PENDING" ]

NoTime == [set |-> FALSE, day |-> 0, minute |-> 0]
At(d, m) == [set |-> TRUE, day |-> d, minute |-> m]

\* MeetingThread(...): roster is the insertion order of the participants dict
MeetingThread(roster, duration) ==
    [ roster        |-> roster,
      participants  |-> [e \in {roster[i] : i \in 1..Len(roster)} |-> Participant(e)],
      meeting_duration_minutes |-> duration,
      \* None, which "or" takes like 0
      duration_minutes |-> 0,
      status        |-> WAITING,
      reminder_status |-> "COLLECTING_AVAILABILITY",
      requests_sent |-> FALSE,
      scheduled_start |-> NoTime,
      scheduled_end |-> NoTime ]

Emails(t) == {t.roster[i] : i \in 1..Len(t.roster)}

all_responded(t) == \A e \in Emails(t) : t.participants[e].has_responded

\* a thread that forgets to look for pending clarifications
any_needs_clarification_Never(t) == FALSE

any_needs_clarification(t) == \E e \in Emails(t) : t.participants[e].needs_clarification

----------------------------------------------------------------------------
(* Text after tokenisation                                                 *)

\* A time token: the groups of TIME_RE / TIME_TOKEN_RE ("4", "4pm", "16:00");
\* ok = FALSE is a token the expression does not match.
Tok(h, m, ap) == [ok |-> TRUE, h |-> h, m |-> m, ampm |-> ap]
BadTok == [ok |-> FALSE, h |-> 0, m |-> 0, ampm |-> ""]

\* A slot of a line: split = FALSE when split_time_range does not give two parts.
Slot(s, e) == [split |-> TRUE, s |-> s, e |-> e]
BadSlot == [split |-> FALSE, s |-> BadTok, e |-> BadTok]

\* What the constraint grammar and the accept-all keywords find in a line:
\* dowform/dows/lo/hi the weekday range ("Mon-Tue": RANGE_DOW_RE), list ("Tue/Thu":
\* LIST_DOW_RE) or bare mentions; parts the part-of-day words; between = "match"
\* when TIME_BETWEEN_RE matches (b1, b2 its two times), "word" when only the
\* word "between" occurs; after / before the time of AFTER_RE / BEFORE_RE.
NoFeat ==
    [ dowform |-> "mention", dows |-> {}, lo |-> 0, hi |-> 0,
      next_week |-> FALSE, parts |-> {},
      between |-> "none", b1 |-> BadTok, b2 |-> BadTok,
      after |-> BadTok, before |-> BadTok,
      accept |-> FALSE, negation |-> FALSE ]

\* "[Weekday,] MM/DD: slot, slot": a line LINE_RE matches. day is the offset from
\* today of date(year, mm, dd); date_ok = FALSE is an MM/DD that is no calendar
\* date; dow is the weekday name in front of it (-1: none).
MmddLine(dow, day, date_ok, slots) ==
    [ kind |-> "mmdd", dow |-> dow, day |-> day, date_ok |-> date_ok,
      slots |-> slots, single |-> BadTok, has_range_word |-> TRUE,
      feat |-> [NoFeat EXCEPT !.dows = IF dow >= 0 THEN {dow} ELSE {}] ]

\* "Tue: 10pm" / "Tue 1-3pm, 4-5pm": a line LINE_DAY_RE matches whose first word is
\* a DAY_ALIASES key. single is _parse_time_token of the whole rest of the line,
\* has_range_word whether the rest contains "-" or "to".
DayLine(dow, single, has_range_word, slots, next_week) ==
    [ kind |-> "day", dow |-> dow, day |-> 0, date_ok |-> TRUE,
      slots |-> slots, single |-> single, has_range_word |-> has_range_word,
      feat |-> [NoFeat EXCEPT !.dows = {dow}, !.next_week = next_week] ]

\* Any other line: the features the constraint grammar and the accept-all
\* keywords look for in it.
TextLine(feat) ==
    [ kind |-> "text", dow |-> -1, day |-> 0, date_ok |-> TRUE,
      slots |-> << >>, single |-> BadTok, has_range_word |-> FALSE, feat |-> feat ]

----------------------------------------------------------------------------
(* normalization.py                                                        *)

ParsedTime(h, m, ap) == [ok |-> TRUE, hour |-> h, minute |-> m, ampm |-> ap]
NoParsedTime == [ok |-> FALSE, hour |-> 0, minute |-> 0, ampm |-> ""]

Max(a, b) == IF a >= b THEN a ELSE b
Min(a, b) == IF a <= b THEN a ELSE b

clamp_minutes(m) == Max(0, Min(24 * 60, m))

to_minutes(pt) ==
    LET h == IF pt.ampm = "am"
             THEN (IF pt.hour = 12 THEN 0 ELSE pt.hour)
             ELSE IF pt.ampm = "pm"
                  THEN (IF pt.hour # 12 THEN pt.hour + 12 ELSE pt.hour)
                  ELSE pt.hour
    IN clamp_minutes(h * 60 + pt.minute)

----------------------------------------------------------------------------
(* availability_parser.py                                                  *)

_parse_time(tok) ==
    IF ~tok.ok THEN NoParsedTime
    ELSE IF tok.ampm = "" /\ tok.h >= 13 THEN ParsedTime(tok.h, tok.m, "")
    ELSE IF (tok.h < 1 \/ tok.h > 12) /\ ~(tok.ampm = "" /\ 0 <= tok.h /\ tok.h <= 23)
         THEN NoParsedTime
    ELSE ParsedTime(tok.h, tok.m, tok.ampm)

NotCoerced == [ok |-> FALSE, s |-> NoParsedTime, e |-> NoParsedTime]

_coerce_ampm(start, end) ==
    IF start.ampm = "" /\ end.ampm = "" /\ (start.hour >= 13 \/ end.hour >= 13)
    THEN [ok |-> TRUE, s |-> start, e |-> end]
    ELSE IF start.ampm = "" /\ end.ampm \in {"am", "pm"}
    THEN [ok |-> TRUE, s |-> ParsedTime(start.hour, start.minute, end.ampm), e |-> end]
    ELSE IF end.ampm = "" /\ start.ampm \in {"am", "pm"}
    THEN [ok |-> TRUE, s |-> start, e |-> ParsedTime(end.hour, end.minute, start.ampm)]
    ELSE IF start.ampm \in {"am", "pm"} /\ end.ampm \in {"am", "pm"}
    THEN [ok |-> TRUE, s |-> start, e |-> end]
    ELSE NotCoerced

AmbiguousExample(slot, day) == [kind |-> "ampm", day |-> day, s |-> slot.s, e |-> slot.e]

\* the body of the loop over one line's slots: acc is (windows, ambiguous_examples)
ParseSlot(slot, day, acc) ==
    IF ~slot.split THEN acc
    ELSE LET ps == _parse_time(slot.s)
             pe == _parse_time(slot.e)
         IN IF ~ps.ok \/ ~pe.ok THEN acc
            ELSE LET coerced == _coerce_ampm(ps, pe)
                 IN IF ~coerced.ok
                    THEN [acc EXCEPT !.ambiguous = Append(@, AmbiguousExample(slot, day))]
                    ELSE LET ps2 == coerced.s
                             pe2 == coerced.e
                             h24 == ps2.ampm = "" /\ pe2.ampm = ""
                                    /\ (ps2.hour >= 13 \/ pe2.hour >= 13)
                             start_min == IF h24 THEN ps2.hour * 60 + ps2.minute
                                          ELSE to_minutes(ps2)
                             end_min == IF h24 THEN pe2.hour * 60 + pe2.minute
                                        ELSE to_minutes(pe2)
                             tw == TimeWindow(day, start_min, end_min)
                         IN IF is_valid(tw)
                            THEN [acc EXCEPT !.windows = Append(@, tw)]
                            ELSE acc

RECURSIVE ParseSlots(_, _, _, _)
ParseSlots(slots, i, day, acc) ==
    IF i > Len(slots) THEN acc
    ELSE ParseSlots(slots, i + 1, day, ParseSlot(slots[i], day, acc))

RECURSIVE ParseLines(_, _, _)
ParseLines(text, i, acc) ==
    IF i > Len(text) \/ acc.raised THEN acc
    ELSE IF text[i].kind # "mmdd" THEN ParseLines(text, i + 1, acc)
    ELSE IF ~text[i].date_ok THEN [acc EXCEPT !.raised = TRUE]
    ELSE ParseLines(text, i + 1, ParseSlots(text[i].slots, 1, text[i].day, acc))

\* the ParseResult for what the loop collected; when date(year, mm, dd)
\* raised ValueError there is no result, only raised = TRUE
ParseResultOf(acc) ==
    IF acc.raised
    THEN [ windows |-> << >>, needs_clarification |-> FALSE,
           clarification_question |-> NoQuestion, raised |-> TRUE ]
    ELSE [ windows |-> acc.windows,
           needs_clarification |-> acc.ambiguous # << >>,
           clarification_question |->
               IF acc.ambiguous # << >> THEN acc.ambiguous[1] ELSE NoQuestion,
           raised |-> FALSE ]

parse_availability(text) ==
    ParseResultOf(ParseLines(text, 1, [windows |-> << >>, ambiguous |-> << >>,
                                       raised |-> FALSE]))

----------------------------------------------------------------------------
(* constraint_parser.py                                                    *)

\* date.weekday() of the day at offset d, when today's weekday is wd (Monday = 0)
Weekday(d, wd) == (wd + d) % 7

_start_of_next_week(d, wd) ==
    LET days_until_mon == (7 - Weekday(d, wd)) % 7
    IN d + (IF days_until_mon = 0 THEN 7 ELSE days_until_mon)

_minutes(h, m) == h * 60 + m

_time_window_for_part_of_day(part) ==
    IF part = "morning" THEN <<_minutes(9, 0), _minutes(12, 0)>>
    ELSE IF part = "afternoon" THEN <<_minutes(12, 0), _minutes(17, 0)>>
    ELSE IF part = "evening" THEN <<_minutes(17, 0), _minutes(21, 0)>>
    ELSE <<_minutes(9, 0), _minutes(17, 0)>>

\* _to_24h followed by _minutes; the same arithmetic as _to_minutes
_to_minutes(h, m, ap) ==
    LET h24 == IF ap = "am" /\ h = 12 THEN 0
               ELSE IF ap = "pm" /\ h # 12 THEN h + 12
               ELSE h
    IN _minutes(h24, m)

_date_for_weekday(base, idx, wd) == base + ((idx - Weekday(base, wd)) % 7)

\* _parse_time_token checks no range; constraint_parser._coerce_ampm on its result
_coerce_ampm_tokens(start, end) ==
    IF start.ampm = "" /\ end.ampm \in {"am", "pm"}
    THEN [ok |-> TRUE, s |-> [start EXCEPT !.ampm = end.ampm], e |-> end]
    ELSE IF end.ampm = "" /\ start.ampm \in {"am", "pm"}
    THEN [ok |-> TRUE, s |-> start, e |-> [end EXCEPT !.ampm = start.ampm]]
    ELSE IF start.ampm \in {"am", "pm"} /\ end.ampm \in {"am", "pm"}
    THEN [ok |-> TRUE, s |-> start, e |-> end]
    ELSE IF start.ampm = "" /\ end.ampm = "" /\ (start.h >= 13 \/ end.h >= 13)
    THEN [ok |-> TRUE, s |-> start, e |-> end]
    ELSE [ok |-> FALSE, s |-> start, e |-> end]

\* one "part" of a day line: the windows list with the part's window appended
DayLinePart(slot, d, windows) ==
    IF ~slot.split \/ ~slot.s.ok \/ ~slot.e.ok THEN windows
    ELSE LET coerced == _coerce_ampm_tokens(slot.s, slot.e)
         IN IF ~coerced.ok THEN windows
            ELSE LET s == coerced.s
                     e == coerced.e
                     h24 == s.ampm = "" /\ e.ampm = "" /\ (s.h >= 13 \/ e.h >= 13)
                     start_min == IF h24 THEN s.h * 60 + s.m ELSE _to_minutes(s.h, s.m, s.ampm)
                     end_min == IF h24 THEN e.h * 60 + e.m ELSE _to_minutes(e.h, e.m, e.ampm)
                     tw == TimeWindow(d, start_min, end_min)
                 IN IF is_valid(tw) THEN Append(windows, tw) ELSE windows

RECURSIVE DayLineParts(_, _, _, _)
DayLineParts(slots, i, d, windows) ==
    IF i > Len(slots) THEN windows
    ELSE DayLineParts(slots, i + 1, d, DayLinePart(slots[i], d, windows))

\* the single-time branch ("Tue: 10pm" is a one-hour window); taken = FALSE when
\* the line falls through to the loop over its parts
DayLineSingle(line, d) ==
    LET single == line.single
        start_min == IF single.ampm = "" /\ single.h >= 13
                     THEN single.h * 60 + single.m
                     ELSE _to_minutes(single.h, single.m, single.ampm)
        end_min == start_min + 60
        tw == TimeWindow(d, start_min, end_min)
    IN [ taken |-> single.ok /\ ~line.has_range_word /\ end_min <= 24 * 60 /\ is_valid(tw),
         tw |-> tw ]

RECURSIVE _parse_day_time_lines_from(_, _, _, _)
_parse_day_time_lines_from(text, i, wd, windows) ==
    IF i > Len(text) THEN windows
    ELSE LET line == text[i]
             \* LINE_DAY_RE also matches "Tue, 02/11: a-b, c-d": its first part
             \* ("02/11: a-b") is no time range, the later ones are
             matches == line.kind = "day" \/ (line.kind = "mmdd" /\ line.dow >= 0)
             base == IF line.feat.next_week THEN _start_of_next_week(0, wd) ELSE 0
             d == _date_for_weekday(base, line.dow, wd)
             one == DayLineSingle(line, d)
             parts == IF line.kind = "mmdd" THEN Tail(line.slots) ELSE line.slots
         IN IF ~matches THEN _parse_day_time_lines_from(text, i + 1, wd, windows)
            ELSE IF line.kind = "day" /\ one.taken
                 THEN _parse_day_time_lines_from(text, i + 1, wd, Append(windows, one.tw))
            ELSE _parse_day_time_lines_from(text, i + 1, wd,
                                            DayLineParts(parts, 1, d, windows))

_parse_day_time_lines(text, wd) == _parse_day_time_lines_from(text, 1, wd, << >>)

Lines(text) == {text[i] : i \in 1..Len(text)}

\* the first line (or 0) that satisfies P: re.search finds the first match
FirstLine(text, P(_)) ==
    IF \E i \in 1..Len(text) : P(text[i])
    THEN CHOOSE i \in 1..Len(text) : P(text[i]) /\ \A j \in 1..(i - 1) : ~P(text[j])
    ELSE 0

\* the days base .. base+6 whose weekday is in wanted, in date order
RECURSIVE WeekDays(_, _, _, _)
WeekDays(base, i, wanted, wd) ==
    IF i > 6 THEN << >>
    ELSE (IF Weekday(base + i, wd) \in wanted THEN <<base + i>> ELSE << >>)
         \o WeekDays(base, i + 1, wanted, wd)

\* the bare mentions: one date per weekday named, in DAY_ALIASES order
RECURSIVE MentionedDays(_, _, _, _)
MentionedDays(base, idx, wanted, wd) ==
    IF idx > 6 THEN << >>
    ELSE (IF idx \in wanted THEN <<_date_for_weekday(base, idx, wd)>> ELSE << >>)
         \o MentionedDays(base, idx + 1, wanted, wd)

IsRange(line) == line.feat.dowform = "range"
IsList(line) == line.feat.dowform = "list"

\* the list of days, << >> standing for None
_extract_days(text, wd) ==
    LET base == IF \E l \in Lines(text) : l.feat.next_week
                THEN _start_of_next_week(0, wd) ELSE 0
        r == FirstLine(text, IsRange)
        l == FirstLine(text, IsList)
    IN IF r # 0
       THEN LET start == text[r].feat.lo
                end == text[r].feat.hi
                in_range == IF start <= end
                            THEN {w \in 0..6 : start <= w /\ w <= end}
                            ELSE {w \in 0..6 : w >= start \/ w <= end}
            IN WeekDays(base, 0, in_range, wd)
       ELSE IF l # 0
       THEN WeekDays(base, 0, text[l].feat.dows, wd)
       ELSE MentionedDays(base, 0, UNION {x.feat.dows : x \in Lines(text)}, wd)

HasBetween(line) == line.feat.between = "match"
HasAfter(line) == line.feat.after.ok
HasBefore(line) == line.feat.before.ok

\* [ok, lo, hi]: ok = FALSE is None
_parse_time_bounds(text) ==
    LET b == FirstLine(text, HasBetween)
        a == FirstLine(text, HasAfter)
        f == FirstLine(text, HasBefore)
    IN IF b # 0
       THEN LET t1 == text[b].feat.b1
                t2 == text[b].feat.b2
            IN IF t1.ampm = "" \/ t2.ampm = ""
               THEN [ok |-> FALSE, lo |-> 0, hi |-> 0]
               ELSE [ok |-> TRUE, lo |-> _to_minutes(t1.h, t1.m, t1.ampm),
                                  hi |-> _to_minutes(t2.h, t2.m, t2.ampm)]
       ELSE IF a # 0
       THEN LET t == text[a].feat.after
            IN [ok |-> TRUE, lo |-> _to_minutes(t.h, t.m, t.ampm), hi |-> _minutes(21, 0)]
       ELSE IF f # 0
       THEN LET t == text[f].feat.before
            IN [ok |-> TRUE, lo |-> _minutes(9, 0), hi |-> _to_minutes(t.h, t.m, t.ampm)]
       ELSE [ok |-> FALSE, lo |-> 0, hi |-> 0]

BetweenQuestion == [kind |-> "between"]

RECURSIVE WindowsOnDays(_, _, _, _)
WindowsOnDays(days, i, s, e) ==
    IF i > Len(days) THEN << >>
    ELSE (IF is_valid(TimeWindow(days[i], s, e)) THEN <<TimeWindow(days[i], s, e)>> ELSE << >>)
         \o WindowsOnDays(days, i + 1, s, e)

\* (windows, clarification_question)
parse_constraints(text, wd) ==
    LET line_windows == _parse_day_time_lines(text, wd)
        days == _extract_days(text, wd)
        parts == UNION {l.feat.parts : l \in Lines(text)}
        part == IF "evening" \in parts THEN "evening"
                ELSE IF "afternoon" \in parts THEN "afternoon"
                ELSE IF "morning" \in parts THEN "morning"
                ELSE "anytime"
        default == _time_window_for_part_of_day(part)
        bounds == _parse_time_bounds(text)
        start_min == IF bounds.ok THEN bounds.lo ELSE default[1]
        end_min == IF bounds.ok THEN bounds.hi ELSE default[2]
    IN IF text = << >> THEN [windows |-> << >>, question |-> NoQuestion]
       ELSE IF line_windows # << >> THEN [windows |-> line_windows, question |-> NoQuestion]
       ELSE IF days = << >> THEN [windows |-> << >>, question |-> NoQuestion]
       ELSE IF ~bounds.ok /\ (\E l \in Lines(text) : l.feat.between # "none")
            THEN [windows |-> << >>, question |-> BetweenQuestion]
       ELSE [windows |-> WindowsOnDays(days, 1, start_min, end_min), question |-> NoQuestion]

----------------------------------------------------------------------------
(* text_normalize.py                                                       *)

\* a quoted line ("> ...") and the "On ... wrote:" line of a reply
QuoteLine == [TextLine(NoFeat) EXCEPT !.kind = "quote"]
WroteLine == [TextLine(NoFeat) EXCEPT !.kind = "wrote"]

RECURSIVE clean_from(_, _)
clean_from(text, i) ==
    IF i > Len(text) THEN << >>
    ELSE IF text[i].kind = "quote" THEN clean_from(text, i + 1)
    ELSE IF text[i].kind = "wrote" THEN << >>
    ELSE <<text[i]>> \o clean_from(text, i + 1)

clean_email_text(text) == clean_from(text, 1)

----------------------------------------------------------------------------
(* reconciler.py                                                           *)

\* the inner two loops of _intersect_two for one date d
RECURSIVE IntersectWith(_, _, _, _)
IntersectWith(wa, b, d, j) ==
    IF j > Len(b) THEN << >>
    ELSE LET s == Max(wa.start_minute, b[j].start_minute)
             e == Min(wa.end_minute, b[j].end_minute)
         IN (IF b[j].day = d /\ s < e THEN <<TimeWindow(d, s, e)>> ELSE << >>)
            \o IntersectWith(wa, b, d, j + 1)

RECURSIVE IntersectDayFrom(_, _, _, _)
IntersectDayFrom(a, b, d, i) ==
    IF i > Len(a) THEN << >>
    ELSE (IF a[i].day = d THEN IntersectWith(a[i], b, d, 1) ELSE << >>)
         \o IntersectDayFrom(a, b, d, i + 1)

IntersectDay(a, b, d) == IntersectDayFrom(a, b, d, 1)

WindowDays(a) == {a[i].day : i \in 1..Len(a)}

\* the loop over the dates both lists have; the set is walked in date order
\* here, find_earliest_overlap sorts the result anyway
RECURSIVE IntersectDays(_, _, _)
IntersectDays(a, b, days) ==
    IF days = {} THEN << >>
    ELSE LET d == CHOOSE x \in days : \A y \in days : x <= y
         IN IntersectDay(a, b, d) \o IntersectDays(a, b, days \ {d})

\* a reconciler that takes a participant without windows as unconstrained
_intersect_two_SkipEmpty(a, b) ==
    IF b = << >> THEN a
    ELSE IntersectDays(a, b, WindowDays(a) \cap WindowDays(b))

_intersect_two(a, b) == IntersectDays(a, b, WindowDays(a) \cap WindowDays(b))

\* key=lambda w: (w.day, w.start_minute)
KeyLeq(v, w) ==
    \/ v.day < w.day
    \/ (v.day = w.day /\ v.start_minute <= w.start_minute)

\* list.sort is stable: w goes behind every element whose key is not larger
RECURSIVE InsertSorted(_, _)
InsertSorted(sorted, w) ==
    IF sorted = << >> THEN <<w>>
    ELSE IF KeyLeq(Head(sorted), w) THEN <<Head(sorted)>> \o InsertSorted(Tail(sorted), w)
    ELSE <<w>> \o sorted

RECURSIVE SortWindows(_, _, _)
SortWindows(ws, i, sorted) ==
    IF i > Len(ws) THEN sorted
    ELSE SortWindows(ws, i + 1, InsertSorted(sorted, ws[i]))

\* current after the loop over participants[1:]; stop = TRUE is the early return
RECURSIVE IntersectAll(_, _, _)
IntersectAll(t, i, current) ==
    IF i > Len(t.roster) THEN [stop |-> FALSE, current |-> current]
    ELSE LET next == _intersect_two(current, t.participants[t.roster[i]].parsed_windows)
         IN IF next = << >> THEN [stop |-> TRUE, current |-> next]
            ELSE IntersectAll(t, i + 1, next)

NoSlot == [kind |-> "none", start |-> NoTime, end |-> NoTime]
\* datetime.time(hour=24) raises ValueError
SlotError == [kind |-> "raise", start |-> NoTime, end |-> NoTime]
ScheduledSlot(d, s, e) == [kind |-> "slot", start |-> At(d, s), end |-> At(d, e)]

\* the loop that takes the first window whatever its length
FirstFit_NoLengthCheck(sorted, i, duration) ==
    IF sorted = << >> THEN NoSlot
    ELSE ScheduledSlot(sorted[1].day, sorted[1].start_minute,
                       sorted[1].start_minute + duration)

\* the final loop over the sorted windows
RECURSIVE FirstFit(_, _, _)
FirstFit(sorted, i, duration) ==
    IF i > Len(sorted) THEN NoSlot
    ELSE LET w == sorted[i]
             end_min == w.start_minute + duration
         IN IF (w.end_minute - w.start_minute) < duration
            THEN FirstFit(sorted, i + 1, duration)
            ELSE IF w.start_minute \div 60 > 23 \/ end_min \div 60 > 23
                 THEN SlotError
                 ELSE ScheduledSlot(w.day, w.start_minute, end_min)

find_earliest_overlap(t) ==
    IF t.roster = << >> THEN NoSlot
    ELSE LET r == IntersectAll(t, 2, t.participants[t.roster[1]].parsed_windows)
         IN IF r.stop THEN NoSlot
            ELSE FirstFit(SortWindows(r.current, 1, << >>), 1, t.meeting_duration_minutes)

----------------------------------------------------------------------------
(* coordinator.py                                                          *)

\* OutboundMessage: the kind is the subject's suffix
OutboundMessage(to, kind) == [to |-> to, kind |-> kind]

NoPlan == [set |-> FALSE, start |-> NoTime, end |-> NoTime]
SchedulePlan(start, end) == [set |-> TRUE, start |-> start, end |-> end]

_accept_all_response(text) ==
    IF \E l \in Lines(text) : l.feat.negation THEN FALSE
    ELSE \E l \in Lines(text) : l.feat.accept

\* the variant of _full_availability_windows that covers one week
_full_availability_windows_Week == [i \in 1..7 |-> TimeWindow(i - 1, 0, 24 * 60)]

_full_availability_windows ==
    [i \in 1..FullAvailabilityDays |-> TimeWindow(i - 1, 0, 24 * 60)]

\* start_thread: (thread, message)
start_thread(t) ==
    [ thread |-> [t EXCEPT !.requests_sent = TRUE,
                           !.status = WAITING,
                           !.reminder_status = "COLLECTING_AVAILABILITY",
                           !.participants = [e \in Emails(t) |->
                                [t.participants[e] EXCEPT !.status = "PENDING"]]],
      actions |-> <<OutboundMessage(t.roster, "availability")>> ]

ClarificationTo(email) == <<OutboundMessage(<<email>>, "quick clarification")>>

\* a coordinator without the READY_TO_SCHEDULE branch
StatusAfterReply_NoReady(t) ==
    IF \E e \in Emails(t) : t.participants[e].needs_clarification
    THEN NEEDS_CLARIFICATION
    ELSE WAITING

\* a coordinator that looks at the responses before the clarifications
StatusAfterReply_ReadyFirst(t) ==
    IF \A e \in Emails(t) : t.participants[e].has_responded
    THEN READY_TO_SCHEDULE
    ELSE IF \E e \in Emails(t) : t.participants[e].needs_clarification
    THEN NEEDS_CLARIFICATION
    ELSE WAITING

\* lines 146-157: the reply was understood; the thread status follows
StatusAfterReply(t) ==
    IF any_needs_clarification(t) THEN NEEDS_CLARIFICATION
    ELSE IF all_responded(t) THEN READY_TO_SCHEDULE
    ELSE WAITING

\* lines 108-110: the sender is marked as having responded
MarkResponded(t, email) ==
    [t EXCEPT !.participants[email].status = "RESPONDED"]

\* lines 113-114: the parsed windows are recorded
WithWindows(t, email, windows) ==
    [t EXCEPT !.participants[email].parsed_windows = windows,
              !.participants[email].has_responded = TRUE]

\* a coordinator that sends the clarification to the whole roster
AskClarification_Broadcast(t, email, q) ==
    [ thread |-> [t EXCEPT !.participants[email].needs_clarification = TRUE,
                           !.participants[email].clarification_question = q,
                           !.status = NEEDS_CLARIFICATION],
      actions |-> <<OutboundMessage(t.roster, "quick clarification")>>,
      raised |-> FALSE ]

\* lines 121-129 and 134-144: the sender, and only the sender, is asked
AskClarification(t, email, q) ==
    [ thread |-> [t EXCEPT !.participants[email].needs_clarification = TRUE,
                           !.participants[email].clarification_question = q,
                           !.status = NEEDS_CLARIFICATION],
      actions |-> ClarificationTo(email), raised |-> FALSE ]

ClearClarification(t, email) ==
    [t EXCEPT !.participants[email].needs_clarification = FALSE,
              !.participants[email].clarification_question = NoQuestion]

\* lines 146-157: the reply was understood
Understood(t) ==
    [thread |-> [t EXCEPT !.status = StatusAfterReply(t)],
     actions |-> << >>, raised |-> FALSE]

\* lines 112-157, with the results of the two parsers in hand
IngestParsed(t, email, result, nl, accept_all) ==
    LET t2 == WithWindows(MarkResponded(t, email), email, result.windows)
    IN IF result.raised
       THEN [thread |-> MarkResponded(t, email), actions |-> << >>, raised |-> TRUE]
       ELSE IF result.windows = << >> /\ ~result.needs_clarification
       THEN IF nl.windows # << >>
            THEN Understood(ClearClarification(WithWindows(t2, email, nl.windows), email))
            ELSE IF nl.question # NoQuestion
            THEN AskClarification(t2, email, nl.question)
            ELSE IF accept_all
            THEN Understood(ClearClarification(
                     WithWindows(t2, email, _full_availability_windows), email))
            ELSE Understood(ClearClarification(t2, email))
       ELSE IF result.needs_clarification
       THEN AskClarification(t2, email, result.clarification_question)
       ELSE Understood(ClearClarification(t2, email))

IngestBody(t, email, body_text, wd) ==
    IngestParsed(t, email, parse_availability(body_text),
                 parse_constraints(body_text, wd), _accept_all_response(body_text))

\* a coordinator that recomputes the status also for an unknown sender
ingest_participant_reply_StatusAnyway(t, participant_email, raw_text, wd) ==
    IF participant_email \notin Emails(t)
    THEN Understood(t)
    ELSE IngestBody(t, participant_email, clean_email_text(raw_text), wd)

\* ingest_participant_reply: (thread, actions, raised); wd is today's weekday
ingest_participant_reply(t, participant_email, raw_text, wd) ==
    IF participant_email \notin Emails(t)
    THEN [thread |-> t, actions |-> << >>, raised |-> FALSE]
    ELSE IngestBody(t, participant_email, clean_email_text(raw_text), wd)

NeedMoreAvailability(t) == <<OutboundMessage(t.roster, "need more availability")>>

\* lines 187-200: no slot; every participant has to answer again
ResetResponses(t) ==
    [t EXCEPT !.status = WAITING,
              !.participants = [e \in Emails(t) |->
                    [t.participants[e] EXCEPT !.has_responded = FALSE,
                                              !.parsed_windows = << >>]]]

\* line 184: the value try_schedule computes and does not pass on
try_schedule_duration(t) ==
    IF t.duration_minutes # 0 THEN t.duration_minutes ELSE t.meeting_duration_minutes

\* a coordinator whose try_schedule does not look at the status first
try_schedule_NoScheduledGuard(t) ==
    LET nothing == [thread |-> t, plan |-> NoPlan, actions |-> << >>, raised |-> FALSE]
        slot == find_earliest_overlap(t)
    IN IF ~all_responded(t) THEN nothing
       ELSE IF any_needs_clarification(t)
       THEN [nothing EXCEPT !.thread = [t EXCEPT !.status = NEEDS_CLARIFICATION]]
       ELSE IF \E e \in Emails(t) : t.participants[e].parsed_windows = << >>
       THEN [nothing EXCEPT !.thread = [t EXCEPT !.status = WAITING],
                            !.actions = NeedMoreAvailability(t)]
       ELSE IF slot.kind = "raise" THEN [nothing EXCEPT !.raised = TRUE]
       ELSE IF slot.kind = "none"
       THEN [nothing EXCEPT !.thread = ResetResponses(t),
                            !.actions = NeedMoreAvailability(t)]
       ELSE [ thread |-> [t EXCEPT !.scheduled_start = slot.start,
                                   !.scheduled_end = slot.end,
                                   !.status = SCHEDULED,
                                   !.reminder_status = "SCHEDULED"],
              plan |-> SchedulePlan(slot.start, slot.end),
              actions |-> <<OutboundMessage(t.roster, "scheduled")>>,
              raised |-> FALSE ]

\* try_schedule: (thread, plan, actions, raised)
try_schedule(t) ==
    LET nothing == [thread |-> t, plan |-> NoPlan, actions |-> << >>, raised |-> FALSE]
        slot == find_earliest_overlap(t)
    IN IF t.status = SCHEDULED THEN nothing
       ELSE IF ~all_responded(t) THEN nothing
       ELSE IF any_needs_clarification(t)
       THEN [nothing EXCEPT !.thread = [t EXCEPT !.status = NEEDS_CLARIFICATION]]
       ELSE IF \E e \in Emails(t) : t.participants[e].parsed_windows = << >>
       THEN [nothing EXCEPT !.thread = [t EXCEPT !.status = WAITING],
                            !.actions = NeedMoreAvailability(t)]
       ELSE IF slot.kind = "raise" THEN [nothing EXCEPT !.raised = TRUE]
       ELSE IF slot.kind = "none"
       THEN [nothing EXCEPT !.thread = ResetResponses(t),
                            !.actions = NeedMoreAvailability(t)]
       ELSE [ thread |-> [t EXCEPT !.scheduled_start = slot.start,
                                   !.scheduled_end = slot.end,
                                   !.status = SCHEDULED,
                                   !.reminder_status = "SCHEDULED"],
              plan |-> SchedulePlan(slot.start, slot.end),
              actions |-> <<OutboundMessage(t.roster, "scheduled")>>,
              raised |-> FALSE ]

----------------------------------------------------------------------------
(* The reply bodies the model feeds in (today is a Monday)                 *)

Now == [weekday |-> 0]

Said(feat) == <<TextLine(feat)>>

Bodies ==
    [ \* "Tue, 02/11: 1pm-3pm"
      tue_1pm_3pm |-> <<MmddLine(1, 1, TRUE, <<Slot(Tok(1, 0, "pm"), Tok(3, 0, "pm"))>>)>>,
      \* "02/11: 14:00-16:00"
      tue_14_16 |-> <<MmddLine(-1, 1, TRUE, <<Slot(Tok(14, 0, ""), Tok(16, 0, ""))>>)>>,
      \* "02/11: 2:45pm-3pm": fifteen minutes
      tue_quarter |-> <<MmddLine(-1, 1, TRUE, <<Slot(Tok(2, 45, "pm"), Tok(3, 0, "pm"))>>)>>,
      \* "Wed, 02/12: 9-11am"
      wed_9_11am |-> <<MmddLine(2, 2, TRUE, <<Slot(Tok(9, 0, ""), Tok(11, 0, "am"))>>)>>,
      \* "02/11: 23:30-24:00"
      tue_late |-> <<MmddLine(-1, 1, TRUE, <<Slot(Tok(23, 30, ""), Tok(24, 0, ""))>>)>>,
      \* "02/11: 1-3"
      tue_1_3 |-> <<MmddLine(-1, 1, TRUE, <<Slot(Tok(1, 0, ""), Tok(3, 0, ""))>>)>>,
      \* "02/11: 1pm-3pm" and "02/12: 1-3"
      mixed |-> << MmddLine(-1, 1, TRUE, <<Slot(Tok(1, 0, "pm"), Tok(3, 0, "pm"))>>),
                   MmddLine(-1, 2, TRUE, <<Slot(Tok(1, 0, ""), Tok(3, 0, ""))>>) >>,
      \* "Tuesday between 1 and 3"
      between_1_3 |-> Said([NoFeat EXCEPT !.dows = {1}, !.between = "match",
                                          !.b1 = Tok(1, 0, ""), !.b2 = Tok(3, 0, "")]),
      \* "Tuesday afternoon"
      tue_afternoon |-> Said([NoFeat EXCEPT !.dows = {1}, !.parts = {"afternoon"}]),
      \* "Tue: 10"
      tue_10 |-> <<DayLine(1, Tok(10, 0, ""), FALSE, <<BadSlot>>, FALSE)>>,
      \* "Tue: 1-3"
      tue_day_1_3 |-> <<DayLine(1, Tok(1, 0, ""), TRUE,
                                <<Slot(Tok(1, 0, ""), Tok(3, 0, ""))>>, FALSE)>>,
      \* "Tuesday"
      tuesday |-> Said([NoFeat EXCEPT !.dows = {1}]),
      \* "02/30: 1pm-3pm"
      bad_date |-> <<MmddLine(-1, 20, FALSE, <<Slot(Tok(1, 0, "pm"), Tok(3, 0, "pm"))>>)>>,
      \* "those times work for me"
      works_for_me |-> Said([NoFeat EXCEPT !.accept = TRUE]),
      \* "thanks!"
      thanks |-> Said(NoFeat),
      \* "02/11: 14:00-16:00" above the quoted request
      quoted |-> << MmddLine(-1, 1, TRUE, <<Slot(Tok(14, 0, ""), Tok(16, 0, ""))>>),
                    WroteLine,
                    [MmddLine(-1, 2, TRUE, <<Slot(Tok(1, 0, ""), Tok(3, 0, ""))>>)
                        EXCEPT !.kind = "quote"] >> ]

BodyNames == DOMAIN Bodies

----------------------------------------------------------------------------
(* The coordinator on one thread of two participants                       *)

Roster == <<"alice", "bob">>
Senders == {"alice", "bob", "mallory"}

\* the last call: its arguments, the status it found and what it returned
NoCall == [op |-> "none", who |-> "", text |-> "", was |-> "", plan |-> NoPlan,
           actions |-> << >>, raised |-> FALSE]

NoStore == [exists |-> FALSE]
NoInvocations == << >>

Init ==
    /\ thread = MeetingThread(Roster, DefaultMeetingDuration)
    /\ ret = NoCall
    /\ store = NoStore
    /\ inv = NoInvocations
    /\ outbox = << >>

\* the handler starts a thread once, when it has created it
StartThread ==
    /\ ~thread.requests_sent
    /\ \E r \in {start_thread(thread)} :
          /\ thread' = r.thread
          /\ ret' = [NoCall EXCEPT !.op = "start_thread", !.was = thread.status,
                                   !.actions = r.actions]
    /\ UNCHANGED <<store, inv, outbox>>

Ingest(who, b) ==
    /\ thread.requests_sent
    /\ \E r \in {ingest_participant_reply(thread, who, Bodies[b], Now.weekday)} :
          /\ thread' = r.thread
          /\ ret' = [NoCall EXCEPT !.op = "ingest_participant_reply", !.who = who,
                                   !.text = b, !.was = thread.status,
                                   !.actions = r.actions, !.raised = r.raised]
    /\ UNCHANGED <<store, inv, outbox>>

TrySchedule ==
    /\ thread.requests_sent
    /\ \E r \in {try_schedule(thread)} :
          /\ thread' = r.thread
          /\ ret' = [NoCall EXCEPT !.op = "try_schedule", !.was = thread.status,
                                   !.plan = r.plan,
                                   !.actions = r.actions, !.raised = r.raised]
    /\ UNCHANGED <<store, inv, outbox>>

Next ==
    \/ StartThread
    \/ \E who \in Senders, b \in BodyNames : Ingest(who, b)
    \/ TrySchedule

Spec == Init /\ [][Next]_vars

----------------------------------------------------------------------------
(* The reconciler on threads of one to three participants (SpecRecon)      *)

\* 13:00-15:00, 14:00-16:00, 14:30-15:30, the first again a day later, and
\* the last hour of the day
WindowPool ==
    { TimeWindow(0, 13 * 60, 15 * 60), TimeWindow(0, 14 * 60, 16 * 60),
      TimeWindow(0, 14 * 60 + 30, 15 * 60 + 30), TimeWindow(1, 13 * 60, 15 * 60),
      TimeWindow(0, 23 * 60, 24 * 60) }

ReconRosters == { <<"alice">>, <<"alice", "bob">>, <<"alice", "bob", "carol">> }
Durations == {30, 60}

WindowLists(n) == UNION {[1..k -> WindowPool] : k \in 0..n}

\* the window lists of k participants, of at most budget windows together
RECURSIVE Assignments(_, _)
Assignments(k, budget) ==
    IF k = 0 THEN {<< >>}
    ELSE UNION { {<<l>> \o rest : rest \in Assignments(k - 1, budget - Len(l))} :
                 l \in WindowLists(budget) }

ThreadWith(roster, lists, duration) ==
    [MeetingThread(roster, duration) EXCEPT
        !.participants = [e \in {roster[i] : i \in 1..Len(roster)} |->
            LET i == CHOOSE j \in 1..Len(roster) : roster[j] = e
            IN [Participant(e) EXCEPT !.has_responded = TRUE,
                                      !.parsed_windows = lists[i]]]]

NoReconcile == [op |-> "none", slot |-> NoSlot]

InitRecon ==
    /\ \E roster \in ReconRosters, duration \in Durations :
         \E lists \in Assignments(Len(roster), MaxTotalWindows) :
            thread = ThreadWith(roster, lists, duration)
    /\ ret = NoReconcile
    /\ store = NoStore
    /\ inv = NoInvocations
    /\ outbox = << >>

Reconcile ==
    /\ ret.op = "none"
    /\ ret' = [op |-> "find_earliest_overlap", slot |-> find_earliest_overlap(thread)]
    /\ UNCHANGED <<thread, store, inv, outbox>>

NextRecon == Reconcile

SpecRecon == InitRecon /\ [][NextRecon]_vars

----------------------------------------------------------------------------
(* entrypoints/handler.py: the table and the coordination thread record    *)

\* date.isoformat() and datetime.isoformat(), read back by fromisoformat
IsoDate(d) == <<"date", d>>
FromIsoDate(x) == x[2]
IsoDateTime(dt) == IF dt.set THEN <<"datetime", dt.day, dt.minute>> ELSE <<"null">>
FromIsoDateTime(x) == IF x[1] = "datetime" THEN At(x[2], x[3]) ELSE NoTime

tw_to_dict(tw) ==
    [day |-> IsoDate(tw.day), start_minute |-> tw.start_minute,
     end_minute |-> tw.end_minute]

tw_from_dict(w) == TimeWindow(FromIsoDate(w.day), w.start_minute, w.end_minute)

p_to_dict(p) ==
    [ email |-> p.email,
      has_responded |-> p.has_responded,
      parsed_windows |-> [i \in 1..Len(p.parsed_windows) |-> tw_to_dict(p.parsed_windows[i])],
      needs_clarification |-> p.needs_clarification,
      clarification_question |-> p.clarification_question ]

p_from_dict(pd) ==
    [Participant(pd.email) EXCEPT
        !.has_responded = pd.has_responded,
        !.needs_clarification = pd.needs_clarification,
        !.clarification_question = pd.clarification_question,
        !.parsed_windows = [i \in 1..Len(pd.parsed_windows) |->
                                tw_from_dict(pd.parsed_windows[i])]]

NoItem == [exists |-> FALSE]

\* _StoreAdapter.put: the coordination_json of the COORDINATION_THREAD item
StoreAdapterPut(t) ==
    [ exists |-> TRUE,
      roster |-> t.roster,
      participants |-> [e \in Emails(t) |-> p_to_dict(t.participants[e])],
      meeting_duration_minutes |-> t.meeting_duration_minutes,
      status |-> t.status,
      availability_requests_sent_at |-> t.requests_sent,
      scheduled_start |-> IsoDateTime(t.scheduled_start),
      scheduled_end |-> IsoDateTime(t.scheduled_end) ]

\* _StoreAdapter.get: the thread is rebuilt from the fields the item has
StoreAdapterGet(item) ==
    [MeetingThread(item.roster, item.meeting_duration_minutes) EXCEPT
        !.participants = [e \in DOMAIN item.participants |->
                              p_from_dict(item.participants[e])],
        !.status = item.status,
        !.requests_sent = item.availability_requests_sent_at,
        !.scheduled_start = FromIsoDateTime(item.scheduled_start),
        !.scheduled_end = FromIsoDateTime(item.scheduled_end)]

\* IrisCoordinationHandler.handle on the stored thread: a new request
\* starts the thread, a reply is ingested and scheduling is tried; when the
\* coordinator raises nothing is returned
HandleFailed(t) == [thread |-> t, actions |-> << >>, plan |-> NoPlan, raised |-> TRUE]

HandleStarted(r) ==
    [thread |-> r.thread, actions |-> r.actions, plan |-> NoPlan, raised |-> FALSE]

HandleTried(t, a, b) ==
    IF b.raised THEN HandleFailed(t)
    ELSE [thread |-> b.thread, actions |-> a.actions \o b.actions,
          plan |-> b.plan, raised |-> FALSE]

HandleReplied(t, a) ==
    IF a.raised THEN HandleFailed(t) ELSE HandleTried(t, a, try_schedule(a.thread))

handle(t, from_email, body_text, is_new_request, wd) ==
    IF is_new_request
    THEN HandleStarted(start_thread(t))
    ELSE HandleReplied(t, ingest_participant_reply(t, from_email, body_text, wd))

----------------------------------------------------------------------------
(* Two invocations on one stored thread (SpecConc)                         *)

\* the record of the thread after the request went out
StartedItem == StoreAdapterPut(start_thread(MeetingThread(Roster, DefaultMeetingDuration)).thread)

Invocation(e, b) == [pc |-> "get", from_email |-> e, body |-> b, local |-> NoItem]

InitConc ==
    /\ store = StartedItem
    /\ \E ba, bb \in BodyNames :
          inv = [e \in {"alice", "bob"} |->
                    Invocation(e, IF e = "alice" THEN ba ELSE bb)]
    /\ thread = MeetingThread(Roster, DefaultMeetingDuration)
    /\ ret = NoCall
    /\ outbox = << >>

\* store.get(thread_id): get_item on the table
CoordGet(i) ==
    /\ inv[i].pc = "get"
    /\ inv' = [inv EXCEPT ![i].pc = "handle", ![i].local = store]
    /\ UNCHANGED <<thread, ret, store, outbox>>

\* handler.handle(inbound) on the thread this invocation read, and the sends
CoordHandle(i) ==
    /\ inv[i].pc = "handle"
    /\ \E r \in {handle(StoreAdapterGet(inv[i].local), inv[i].from_email,
                        Bodies[inv[i].body], FALSE, Now.weekday)} :
          /\ inv' = [inv EXCEPT ![i].pc = IF r.raised THEN "failed" ELSE "put",
                                ![i].local = StoreAdapterPut(r.thread)]
          /\ outbox' = outbox \o r.actions
    /\ UNCHANGED <<thread, ret, store>>

\* store.put(thread): put_item, whatever the item holds by now
CoordPut(i) ==
    /\ inv[i].pc = "put"
    /\ store' = inv[i].local
    /\ inv' = [inv EXCEPT ![i].pc = "done"]
    /\ UNCHANGED <<thread, ret, outbox>>

NextConc ==
    \E i \in {"alice", "bob"} : CoordGet(i) \/ CoordHandle(i) \/ CoordPut(i)

SpecConc == InitConc /\ [][NextConc]_vars

----------------------------------------------------------------------------
(* conversation/engine.py: the single-participant decision                 *)

\* confidence is kept in hundredths
NoCandidate == [set |-> FALSE, weekday |-> 0, start_minute |-> 0, end_minute |-> 0,
                confidence |-> 0]

\* the candidate names the weekday of the window, not its date
_window_to_candidate(w, wd) ==
    [set |-> TRUE, weekday |-> Weekday(w.day, wd),
     start_minute |-> w.start_minute, end_minute |-> w.end_minute,
     confidence |-> 100]

_candidate_from_time_only(time_minutes, weekday, duration_minutes) ==
    [set |-> TRUE, weekday |-> weekday, start_minute |-> time_minutes,
     end_minute |-> (time_minutes + duration_minutes) % (24 * 60),
     confidence |-> 90]

\* a candidate of the AI hint; weekday is NoWeekday when start_local names none
NoWeekday == 0 - 1

AiCandidate(weekday, start_minute, end_minute, confidence) ==
    [set |-> TRUE, weekday |-> weekday, start_minute |-> start_minute,
     end_minute |-> end_minute, confidence |-> confidence]

_candidate_has_weekday(c) == c.weekday # NoWeekday

NoHint == [present |-> FALSE, needs_clarification |-> FALSE,
           clarifying_question |-> "", candidates |-> << >>, intent |-> ""]

AiHint(needs_clarification, clarifying_question, candidates) ==
    [present |-> TRUE, needs_clarification |-> needs_clarification,
     clarifying_question |-> clarifying_question, candidates |-> candidates,
     intent |-> "OTHER"]

\* the hint with another of the intents validate_result lets through
WithIntent(ai_parsed, intent) == [ai_parsed EXCEPT !.intent = intent]

GenericQuestion == "What day and time would you like to schedule this meeting for?"
WhichDayQuestion == "Which day should I schedule that time for?"

\* lines 210-211
UsableCandidates(ai_parsed) == SelectSeq(ai_parsed.candidates, _candidate_has_weekday)

\* line 212
force_day_clarify(ai_parsed) ==
    ai_parsed.candidates # << >> /\ UsableCandidates(ai_parsed) = << >>

\* lines 214-216
clar_q(ai_parsed) ==
    IF ai_parsed.present /\ ai_parsed.clarifying_question # ""
    THEN ai_parsed.clarifying_question
    ELSE GenericQuestion

\* the variant of BestFrom that replaces the best on an equal confidence
RECURSIVE BestFrom_LastOfTies(_, _, _, _)
BestFrom_LastOfTies(candidates, i, best, best_conf) ==
    IF i > Len(candidates) THEN best
    ELSE IF candidates[i].confidence >= best_conf
    THEN BestFrom_LastOfTies(candidates, i + 1, candidates[i], candidates[i].confidence)
    ELSE BestFrom_LastOfTies(candidates, i + 1, best, best_conf)

\* lines 226-237: the loop over the candidates from position i on
RECURSIVE BestFrom(_, _, _, _)
BestFrom(candidates, i, best, best_conf) ==
    IF i > Len(candidates) THEN best
    ELSE IF candidates[i].confidence > best_conf
    THEN BestFrom(candidates, i + 1, candidates[i], candidates[i].confidence)
    ELSE BestFrom(candidates, i + 1, best, best_conf)

\* line 239: best or candidates[0]
OrFirst(best, candidates) == IF best.set THEN best ELSE candidates[1]

chosen(candidates) == OrFirst(BestFrom(candidates, 1, NoCandidate, 0 - 100), candidates)

NoConversation == [exists |-> FALSE, state |-> "INFO_GATHERING", last_candidate |-> NoCandidate]

ThreadItem(state, last_candidate) ==
    [exists |-> TRUE, state |-> state, last_candidate |-> last_candidate]

Schedule(candidate) ==
    [item |-> ThreadItem("EXECUTION", candidate), action |-> "schedule",
     question |-> "", chosen_candidate |-> candidate, raised |-> FALSE]

Clarify(existing, question) ==
    [item |-> ThreadItem("CLARIFICATION_LOOP", existing.last_candidate),
     action |-> "clarify", question |-> question,
     chosen_candidate |-> NoCandidate, raised |-> FALSE]

\* the exception of parse_availability leaves process_incoming_email before
\* the thread item is written
EngineRaised(existing) ==
    [item |-> existing, action |-> "raise", question |-> "",
     chosen_candidate |-> NoCandidate, raised |-> TRUE]

\* lines 258-329 with the windows of the body in hand; time_of_day is the
\* am/pm time the body names when it names no weekday
DecideFromText(existing, windows, time_of_day, ai_parsed, wd) ==
    IF windows # << >>
    THEN Schedule(_window_to_candidate(SortWindows(windows, 1, << >>)[1], wd))
    ELSE IF existing.last_candidate.set /\ time_of_day.ok
    THEN Schedule(_candidate_from_time_only(time_of_day.minutes,
                      existing.last_candidate.weekday, DEFAULT_DURATION_MINUTES))
    ELSE IF force_day_clarify(ai_parsed)
            \/ (time_of_day.ok /\ ~time_of_day.relative_day)
    THEN Clarify(existing, WhichDayQuestion)
    ELSE Clarify(existing, clar_q(ai_parsed))

WindowsOfText(parsed, body_text, wd) ==
    IF parsed.windows # << >> THEN parsed.windows
    ELSE parse_constraints(body_text, wd).windows

\* lines 259-263
DecideFromBody(existing, parsed, body_text, time_of_day, ai_parsed, wd) ==
    IF parsed.raised THEN EngineRaised(existing)
    ELSE DecideFromText(existing, WindowsOfText(parsed, body_text, wd),
                        time_of_day, ai_parsed, wd)

\* process_incoming_email: (thread item, decision)
process_incoming_email(existing, body_text, time_of_day, ai_parsed, wd) ==
    IF UsableCandidates(ai_parsed) # << >>
    THEN Schedule(chosen(UsableCandidates(ai_parsed)))
    ELSE DecideFromBody(existing, parse_availability(body_text), body_text,
                        time_of_day, ai_parsed, wd)

----------------------------------------------------------------------------
(* entrypoints/handler.py: handle_ses_event, one invocation per delivery   *)

NoTimeOfDay == [ok |-> FALSE, minutes |-> 0, relative_day |-> FALSE]

TimeOfDay(minutes, relative_day) ==
    [ok |-> TRUE, minutes |-> minutes, relative_day |-> relative_day]

Message(id, thread_id, from_email, others, body, blocked, time_of_day) ==
    [message_id |-> id, thread_id |-> thread_id, from_email |-> from_email,
     others |-> others, body |-> body, blocked |-> blocked,
     time_of_day |-> time_of_day, ai_parsed |-> NoHint, keyword |-> FALSE]

\* lines 206-215: the message with the hint the AI parser returned for it
Hinted(m, ai_parsed) == [m EXCEPT !.ai_parsed = ai_parsed]

\* the message whose body has one of the words "coordinate", "find a time",
\* "schedule us", "schedule a time", "availability"
WithKeyword(m) == [m EXCEPT !.keyword = TRUE]

\* what the mailbox can hold: a request to two people and the replies to it,
\* a conversation with one person, a message the guardrail blocks, and two
\* replies that leave only the last half hour of a day, and a message whose
\* hint carries the candidate "Saturday 3:00 PM", and a request to two people
\* that asks to "find a time" and has the intent NEW_REQUEST
Messages ==
    { Message("m1", "T1", "alice", <<"bob">>, "thanks", FALSE, NoTimeOfDay),
      Message("m2", "T1", "bob", <<"alice">>, "tue_1_3", FALSE, NoTimeOfDay),
      Message("m3", "T1", "alice", <<"bob">>, "tue_1pm_3pm", FALSE, NoTimeOfDay),
      Message("m4", "T1", "bob", <<"alice">>, "tue_14_16", FALSE, NoTimeOfDay),
      Message("m5", "T2", "carol", << >>, "thanks", FALSE, NoTimeOfDay),
      Message("m6", "T2", "carol", << >>, "wed_9_11am", FALSE, NoTimeOfDay),
      Message("m7", "T2", "carol", << >>, "thanks", FALSE, TimeOfDay(15 * 60, FALSE)),
      Message("m8", "T2", "carol", << >>, "thanks", TRUE, NoTimeOfDay),
      Message("m9", "T1", "alice", <<"bob">>, "tue_late", FALSE, NoTimeOfDay),
      Message("m10", "T1", "bob", <<"alice">>, "works_for_me", FALSE, NoTimeOfDay),
      Hinted(Message("m11", "T2", "carol", << >>, "thanks", FALSE, NoTimeOfDay),
             AiHint(FALSE, "", <<AiCandidate(5, 15 * 60, 15 * 60 + 30, 90)>>)),
      WithKeyword(Hinted(Message("m12", "T3", "alice", <<"bob", "dave">>, "thanks", FALSE,
                                 NoTimeOfDay),
                         WithIntent(AiHint(TRUE, "", << >>), "NEW_REQUEST"))) }

MessageIds == {m.message_id : m \in Messages}
ThreadIds == {m.thread_id : m \in Messages}

NoMessage == [exists |-> FALSE, invite_sent_at |-> FALSE,
              clarification_sent_at |-> FALSE, guardrail_blocked_at |-> FALSE]

MessageRecord(marker) ==
    [exists |-> TRUE, invite_sent_at |-> marker = "invite_sent_at",
     clarification_sent_at |-> marker = "clarification_sent_at",
     guardrail_blocked_at |-> marker = "guardrail_blocked_at"]

EmptyTable ==
    [ coord |-> [t \in ThreadIds |-> NoItem],
      conv |-> [t \in ThreadIds |-> NoConversation],
      messages |-> [i \in MessageIds |-> NoMessage] ]

Invoked(m, action) == [op |-> "handle_ses_event", message_id |-> m.message_id,
                       action |-> action]

InitMsg ==
    /\ store = EmptyTable
    /\ outbox = << >>
    /\ inv = 0
    /\ ret = [op |-> "none", message_id |-> "", action |-> ""]
    /\ thread = MeetingThread(Roster, DefaultMeetingDuration)

\* lines 118-127: the record of the message carries one of the three marks
AlreadyHandled(m) ==
    LET existing == store.messages[m.message_id]
    IN existing.exists /\ (existing.invite_sent_at \/ existing.clarification_sent_at
                           \/ existing.guardrail_blocked_at)

reply_recipients(m) == <<m.from_email>> \o m.others

participants_all(m) ==
    IF store.coord[m.thread_id].exists THEN store.coord[m.thread_id].roster
    ELSE <<m.from_email>> \o m.others

is_multi(m) == store.coord[m.thread_id].exists \/ Len(participants_all(m)) >= 2

Begin(m) == inv < MaxDeliveries /\ inv' = inv + 1

IdempotentSkip(m) ==
    /\ Begin(m)
    /\ AlreadyHandled(m)
    /\ ret' = Invoked(m, "skipped")
    /\ UNCHANGED <<thread, store, outbox>>

\* lines 165-201
GuardrailBlocked(m) ==
    /\ Begin(m)
    /\ ~AlreadyHandled(m)
    /\ m.blocked
    /\ outbox' = Append(outbox, OutboundMessage(reply_recipients(m), "blocked"))
    /\ store' = [store EXCEPT !.messages[m.message_id] = MessageRecord("guardrail_blocked_at")]
    /\ ret' = Invoked(m, "guardrail_blocked")
    /\ UNCHANGED thread

\* the messages the entrypoint sends for what handle returned
Sends(r, attendees) ==
    IF r.plan.set
    THEN SelectSeq(r.actions, LAMBDA a : a.kind # "scheduled")
            \o <<OutboundMessage(attendees, "invite")>>
    ELSE r.actions

\* the thread item handle works on: the stored one, or the one just created
ItemFor(m) ==
    IF store.coord[m.thread_id].exists THEN store.coord[m.thread_id]
    ELSE StoreAdapterPut(MeetingThread(participants_all(m), DefaultMeetingDuration))

\* lines 241-442
Coordination(m) ==
    /\ Begin(m)
    /\ ~AlreadyHandled(m)
    /\ ~m.blocked
    /\ is_multi(m)
    /\ \E r \in {handle(StoreAdapterGet(ItemFor(m)), m.from_email, Bodies[m.body],
                        ~store.coord[m.thread_id].exists, Now.weekday)} :
          IF r.raised
          THEN /\ store' = [store EXCEPT !.coord[m.thread_id] = ItemFor(m)]
               /\ ret' = Invoked(m, "error")
               /\ UNCHANGED <<thread, outbox>>
          ELSE /\ store' = [store EXCEPT !.coord[m.thread_id] = StoreAdapterPut(r.thread),
                                         !.messages[m.message_id] = MessageRecord("coord_action")]
               /\ outbox' = outbox \o Sends(r, participants_all(m))
               /\ thread' = r.thread
               /\ ret' = Invoked(m, "coordination")

\* lines 448-610; an exception of the engine ends the invocation in
\* lambda_handler (611-619) before anything is sent or written
Conversation(m) ==
    /\ Begin(m)
    /\ ~AlreadyHandled(m)
    /\ ~m.blocked
    /\ ~is_multi(m)
    /\ \E d \in {process_incoming_email(store.conv[m.thread_id], Bodies[m.body],
                                        m.time_of_day, m.ai_parsed, Now.weekday)} :
          IF d.raised
          THEN /\ ret' = Invoked(m, "error")
               /\ UNCHANGED <<store, outbox>>
          ELSE /\ store' = [store EXCEPT
                               !.conv[m.thread_id] = d.item,
                               !.messages[m.message_id] =
                                   IF d.action = "clarify"
                                   THEN MessageRecord("clarification_sent_at")
                                   ELSE MessageRecord("invite_sent_at")]
               /\ outbox' = Append(outbox, OutboundMessage(reply_recipients(m),
                                 IF d.action = "clarify" THEN "clarify" ELSE "invite"))
               /\ ret' = Invoked(m, IF d.action = "clarify" THEN "clarify" ELSE "scheduled")
    /\ UNCHANGED thread

NextMsg ==
    \E m \in Messages :
        \/ IdempotentSkip(m)
        \/ GuardrailBlocked(m)
        \/ Coordination(m)
        \/ Conversation(m)

SpecMsg == InitMsg /\ [][NextMsg]_vars

----------------------------------------------------------------------------
(* One conversation thread under process_incoming_email (SpecEngine)       *)

\* an email of the conversation: its body and the am/pm time the body names
\* when it names no weekday
Email(body, time_of_day) == [body |-> body, time_of_day |-> time_of_day]

EngineEmails ==
    { Email("tue_1pm_3pm", NoTimeOfDay),
      Email("wed_9_11am", NoTimeOfDay),
      Email("tue_1_3", NoTimeOfDay),
      Email("tue_afternoon", NoTimeOfDay),
      Email("between_1_3", NoTimeOfDay),
      Email("tue_10", NoTimeOfDay),
      Email("tuesday", NoTimeOfDay),
      Email("bad_date", NoTimeOfDay),
      Email("tue_day_1_3", NoTimeOfDay),
      Email("thanks", NoTimeOfDay),
      \* "3pm works"
      Email("thanks", TimeOfDay(15 * 60, FALSE)),
      \* "tomorrow at 11:45pm"
      Email("thanks", TimeOfDay(23 * 60 + 45, TRUE)) }

\* "Saturday 3:00 PM" (0.9), "Thursday 10:00 AM" (0.9), "Wednesday 9:00 AM"
\* (0.5) and "3:00 PM" (1.0), which names no weekday
CandidatePool ==
    { AiCandidate(5, 15 * 60, 15 * 60 + 30, 90),
      AiCandidate(3, 10 * 60, 10 * 60 + 30, 90),
      AiCandidate(2, 9 * 60, 9 * 60 + 30, 50),
      AiCandidate(NoWeekday, 15 * 60, 15 * 60 + 30, 100) }

CandidateLists ==
    UNION { [1..n -> CandidatePool] : n \in 0..MaxCandidates }

HintQuestion == "Which Tuesday do you mean?"

\* no hint, and the hints with no candidate, with "Saturday 3:00 PM" and
\* with "3:00 PM"
ShortHints ==
    {NoHint} \cup { AiHint(nc, q, cs) : nc \in BOOLEAN, q \in {"", HintQuestion},
                                        cs \in { << >>,
                                                 <<AiCandidate(5, 15 * 60, 15 * 60 + 30, 90)>>,
                                                 <<AiCandidate(NoWeekday, 15 * 60, 15 * 60 + 30, 100)>> } }

\* what can arrive: any email with a short hint, and an email without a time
\* with any list of candidates
EngineInputs ==
    { [email |-> e, ai_parsed |-> h] : e \in EngineEmails, h \in ShortHints }
    \cup { [email |-> Email("thanks", NoTimeOfDay), ai_parsed |-> AiHint(FALSE, "", cs)] :
              cs \in CandidateLists }

NoDecision == [op |-> "none", email |-> Email("thanks", NoTimeOfDay),
               ai_parsed |-> NoHint, was |-> NoConversation,
               decision |-> EngineRaised(NoConversation)]

InitEngine ==
    /\ store = NoConversation
    /\ ret = NoDecision
    /\ thread = MeetingThread(Roster, DefaultMeetingDuration)
    /\ inv = 0
    /\ outbox = << >>

\* one inbound email of the thread: the item is read, the decision taken and
\* the item written back (engine.py 201-202, 322-337)
ProcessIncomingEmail(e, ai_parsed) ==
    /\ \E d \in {process_incoming_email(store, Bodies[e.body], e.time_of_day,
                                        ai_parsed, Now.weekday)} :
          /\ store' = d.item
          /\ ret' = [op |-> "process_incoming_email", email |-> e,
                     ai_parsed |-> ai_parsed, was |-> store, decision |-> d]
    /\ UNCHANGED <<thread, inv, outbox>>

NextEngine == \E i \in EngineInputs : ProcessIncomingEmail(i.email, i.ai_parsed)

SpecEngine == InitEngine /\ [][NextEngine]_vars

----------------------------------------------------------------------------
(* ai/bedrock_call.py, ai/public.py: the call of the AI parser (SpecAi)    *)

\* range(2) of call_nova_parser
Attempts == 2

\* what client.converse and the validation of its text give in one attempt:
\* an exception, or a hint
ConverseError == [ok |-> FALSE, parsed |-> NoHint]
ConverseOk(ai_parsed) == [ok |-> TRUE, parsed |-> ai_parsed]

\* validate_result({}, tz_default)
FallbackHint == AiHint(TRUE, GenericQuestion, << >>)

NoAiResult == [ok |-> FALSE, parsed |-> NoHint, raised |-> FALSE]

\* the variant of parse_email that lets the exception through
parse_email_Reraise(response, cases_ok) ==
    IF response.ok /\ cases_ok
    THEN [ok |-> TRUE, parsed |-> response.parsed, raised |-> FALSE]
    ELSE [ok |-> FALSE, parsed |-> FallbackHint, raised |-> TRUE]

\* parse_email once call_nova_parser returned (response.ok) or raised its
\* last error; cases_ok = FALSE when the write of the case record raises
parse_email(response, cases_ok) ==
    IF response.ok /\ cases_ok
    THEN [ok |-> TRUE, parsed |-> response.parsed, raised |-> FALSE]
    ELSE [ok |-> FALSE, parsed |-> FallbackHint, raised |-> FALSE]

\* entrypoints/handler.py 214-215
ai_parsed_of(ai_result) == IF ai_result.ok THEN ai_result.parsed ELSE NoHint

ResponsePool ==
    { ConverseError,
      ConverseOk(AiHint(FALSE, "", <<AiCandidate(5, 15 * 60, 15 * 60 + 30, 90)>>)),
      ConverseOk(AiHint(TRUE, HintQuestion, << >>)) }

ExistingItems ==
    { NoConversation,
      ThreadItem("EXECUTION", AiCandidate(5, 15 * 60, 15 * 60 + 30, 90)),
      ThreadItem("CLARIFICATION_LOOP", AiCandidate(5, 15 * 60, 15 * 60 + 30, 90)) }

\* a message of a single-participant thread arrives: the stored item, the
\* email, what the next three calls of the model would give, and whether
\* the case record can be written
InitAi ==
    /\ store \in ExistingItems
    /\ ret \in { [op |-> "call_nova_parser", email |-> e, was |-> store,
                  responses |-> rs, cases_ok |-> c, ai_result |-> NoAiResult,
                  decision |-> EngineRaised(store)] :
                 e \in EngineEmails, rs \in [1..(Attempts + 1) -> ResponsePool],
                 c \in BOOLEAN }
    /\ inv = 0
    /\ thread = MeetingThread(Roster, DefaultMeetingDuration)
    /\ outbox = << >>

\* one pass of the loop of call_nova_parser (lines 19-33); inv counts the
\* calls of the model
Converse ==
    /\ ret.op = "call_nova_parser"
    /\ inv < Attempts
    /\ inv' = inv + 1
    /\ ret' = IF ret.responses[inv + 1].ok \/ inv + 1 = Attempts
              THEN [ret EXCEPT !.op = "parse_email",
                               !.ai_result = parse_email(ret.responses[inv + 1],
                                                         ret.cases_ok)]
              ELSE ret
    /\ UNCHANGED <<thread, store, outbox>>

\* entrypoints/handler.py 205-215 and 448-456
DecideWithAi ==
    /\ ret.op = "parse_email"
    /\ \E d \in { IF ret.ai_result.raised THEN EngineRaised(store)
                  ELSE process_incoming_email(store, Bodies[ret.email.body],
                                              ret.email.time_of_day,
                                              ai_parsed_of(ret.ai_result), Now.weekday) } :
          /\ store' = d.item
          /\ ret' = [ret EXCEPT !.op = "process_incoming_email", !.decision = d]
    /\ UNCHANGED <<thread, inv, outbox>>

NextAi == Converse \/ DecideWithAi

SpecAi == InitAi /\ [][NextAi]_vars

----------------------------------------------------------------------------
(* parse_availability on drawn texts (SpecParse)                           *)

\* the tokens TIME_RE can meet: an hour of one or two digits, minutes of two
\* digits, an optional am/pm; and a token it does not match
ParseHours == {0, 1, 3, 12, 13, 23, 24}
ParseMinutes == {0, 30, 75}

TokPool ==
    {BadTok} \cup { Tok(h, m, ap) : h \in ParseHours, m \in ParseMinutes,
                                    ap \in {"", "am", "pm"} }

SlotPool == {BadSlot} \cup { Slot(s, e) : s \in TokPool, e \in TokPool }

\* "02/11: 1pm-3pm", "02/12: 1-3", "02/13: 9-11, 4pm-5pm", "02/30: 1pm-2pm",
\* "02/14: 3pm-1pm", "02/14: soon-3pm", "02/14: noon" and "see you then"
LinePool ==
    { MmddLine(-1, 1, TRUE, <<Slot(Tok(1, 0, "pm"), Tok(3, 0, "pm"))>>),
      MmddLine(-1, 2, TRUE, <<Slot(Tok(1, 0, ""), Tok(3, 0, ""))>>),
      MmddLine(-1, 3, TRUE, <<Slot(Tok(9, 0, ""), Tok(11, 0, "")),
                              Slot(Tok(4, 0, "pm"), Tok(5, 0, "pm"))>>),
      MmddLine(-1, 20, FALSE, <<Slot(Tok(1, 0, "pm"), Tok(2, 0, "pm"))>>),
      MmddLine(-1, 4, TRUE, <<Slot(Tok(3, 0, "pm"), Tok(1, 0, "pm"))>>),
      MmddLine(-1, 4, TRUE, <<Slot(BadTok, Tok(3, 0, "pm"))>>),
      MmddLine(-1, 4, TRUE, <<BadSlot>>),
      TextLine(NoFeat) }

\* one line with any one slot, and up to MaxLines lines of the pool
ParseTexts ==
    { <<MmddLine(-1, 1, TRUE, <<slot>>)>> : slot \in SlotPool }
    \cup UNION { [1..n -> LinePool] : n \in 0..MaxLines }

NoParseResult == [windows |-> << >>, needs_clarification |-> FALSE,
                  clarification_question |-> NoQuestion, raised |-> FALSE]

InitParse ==
    /\ ret \in { [op |-> "text", text |-> t, result |-> NoParseResult] : t \in ParseTexts }
    /\ thread = MeetingThread(Roster, DefaultMeetingDuration)
    /\ store = NoStore
    /\ inv = 0
    /\ outbox = << >>

ParseAvailability ==
    /\ ret.op = "text"
    /\ ret' = [ret EXCEPT !.op = "parse_availability",
                          !.result = parse_availability(ret.text)]
    /\ UNCHANGED <<thread, store, inv, outbox>>

NextParse == ParseAvailability

SpecParse == InitParse /\ [][NextParse]_vars

----------------------------------------------------------------------------
(* scheduling/scheduling.py: candidate_to_datetimes (SpecSched)            *)

\* A start_local / end_local string: the weekday word in it (NoWeekday: none)
\* and the groups of the time expression (BadTok: no digit in it).
NoLocal == [empty |-> TRUE, weekday |-> NoWeekday, time |-> BadTok]
Local(weekday, time) == [empty |-> FALSE, weekday |-> weekday, time |-> time]

\* a moment is its day offset from today and its minute of that day
Moment(day, minute) == [day |-> day, minute |-> minute]
Before(a, b) == a.day < b.day \/ (a.day = b.day /\ a.minute < b.minute)

_next_weekday_date_Tomorrow(today_weekday, target_wd) ==
    ((target_wd - today_weekday - 1) % 7) + 1

\* the day offset of the date returned
_next_weekday_date(today_weekday, target_wd) == (target_wd - today_weekday) % 7

\* no am/pm: the hour is taken as written
_parse_time_12h(s) ==
    IF ~s.ok THEN [ok |-> FALSE, hour |-> 0, minute |-> 0]
    ELSE [ok |-> TRUE,
          hour |-> IF s.ampm = "" THEN s.h
                   ELSE (IF s.h = 12 THEN 0 ELSE s.h) + (IF s.ampm = "pm" THEN 12 ELSE 0),
          minute |-> s.m]

\* datetime(...) raises on an hour above 23 or a minute above 59
ValidClock(t) == t.ok /\ t.hour \in 0..23 /\ t.minute \in 0..59

DatetimesRaised == [raised |-> TRUE, start |-> Moment(0, 0), end |-> Moment(0, 0)]

Datetimes(base, sh, eh, now) ==
    LET again == base = 0 /\ sh <= now
        start == Moment(IF again THEN 7 ELSE base, sh)
        end   == Moment(IF again THEN 7 ELSE base, eh)
    IN  [raised |-> FALSE, start |-> start,
         end |-> IF ~Before(start, end) THEN Moment(end.day + 1, end.minute) ELSE end]

\* today_weekday and now_minute are datetime.now(tz): the weekday of today and
\* the whole minutes since its midnight
candidate_to_datetimes(candidate, today_weekday, now_minute) ==
    IF candidate.start_local.empty \/ candidate.end_local.empty THEN DatetimesRaised
    ELSE IF candidate.start_local.weekday = NoWeekday THEN DatetimesRaised
    ELSE IF ~ValidClock(_parse_time_12h(candidate.start_local.time)) THEN DatetimesRaised
    ELSE IF ~ValidClock(_parse_time_12h(candidate.end_local.time)) THEN DatetimesRaised
    ELSE Datetimes(_next_weekday_date(today_weekday, candidate.start_local.weekday),
                   _parse_time_12h(candidate.start_local.time).hour * 60
                       + _parse_time_12h(candidate.start_local.time).minute,
                   _parse_time_12h(candidate.end_local.time).hour * 60
                       + _parse_time_12h(candidate.end_local.time).minute,
                   now_minute)

\* "<Weekday> H:MM AM/PM" strings, the strings without a weekday or a time, and
\* the hours the 12-hour clock does not have
StartTimes == { Tok(h, m, ap) : h \in {1, 3, 11, 12}, m \in {0, 30}, ap \in {"am", "pm"} }
                  \cup {Tok(13, 0, "pm"), Tok(15, 0, ""), BadTok}
EndTimes == {Tok(3, 30, "pm"), Tok(12, 0, "am"), Tok(11, 30, "am"), Tok(3, 0, "pm")}
StartLocals == { Local(w, t) : w \in 0..6, t \in StartTimes }
                   \cup {NoLocal, Local(NoWeekday, Tok(3, 0, "pm"))}
EndLocals == { Local(w, t) : w \in {NoWeekday, 6}, t \in EndTimes } \cup {NoLocal}
LocalCandidates ==
    { [start_local |-> s, end_local |-> e] : s \in StartLocals, e \in EndLocals }
NowMinutes == {0, 30, 11 * 60 + 30, 15 * 60, 15 * 60 + 1, 23 * 60 + 30, 23 * 60 + 59}

InitSched ==
    /\ ret \in { [op |-> "candidate", candidate |-> c, today_weekday |-> wd,
                  now_minute |-> n, result |-> DatetimesRaised] :
                 c \in LocalCandidates, wd \in 0..6, n \in NowMinutes }
    /\ thread = MeetingThread(Roster, DefaultMeetingDuration)
    /\ store = NoStore
    /\ inv = 0
    /\ outbox = << >>

CandidateToDatetimes ==
    /\ ret.op = "candidate"
    /\ ret' = [ret EXCEPT !.op = "candidate_to_datetimes",
                          !.result = candidate_to_datetimes(ret.candidate,
                                         ret.today_weekday, ret.now_minute)]
    /\ UNCHANGED <<thread, store, inv, outbox>>

NextSched == CandidateToDatetimes

SpecSched == InitSched /\ [][NextSched]_vars

----------------------------------------------------------------------------
(* parse_constraints on every weekday of today (SpecConstraints)           *)

\* "<Day> 1pm - 3pm, next week" / "<Day> 1pm - 3pm": a day line with one range
DayRange(dow, next_week) ==
    DayLine(dow, BadTok, TRUE,
            IF next_week THEN <<Slot(Tok(1, 0, "pm"), Tok(3, 0, "pm")), BadSlot>>
            ELSE <<Slot(Tok(1, 0, "pm"), Tok(3, 0, "pm"))>>,
            next_week)

\* "Next week works for me."
NextWeekLine == TextLine([NoFeat EXCEPT !.next_week = TRUE])

ConstraintTexts ==
    \* "Tue 1pm - 3pm, next week", "Tue 1pm - 3pm"
    { <<DayRange(d, nw)>> : d \in 0..6, nw \in BOOLEAN }
    \* "Next week works for me." above "Tue 1pm - 3pm"
    \cup { <<NextWeekLine, DayRange(d, FALSE)>> : d \in {0, 1, 6} }
    \* "Tuesday afternoon next week", "Tuesday afternoon"
    \cup { Said([NoFeat EXCEPT !.dows = {d}, !.parts = {"afternoon"}, !.next_week = nw]) :
              d \in 0..6, nw \in BOOLEAN }
    \* "Mon-Wed next week", "Fri-Mon next week mornings"
    \cup { Said([NoFeat EXCEPT !.dowform = "range", !.dows = {r[1], r[2]},
                               !.lo = r[1], !.hi = r[2], !.next_week = TRUE]) :
              r \in {<<0, 2>>, <<4, 0>>} }
    \* "next week: Tue/Thu after 3pm"
    \cup { Said([NoFeat EXCEPT !.dowform = "list", !.dows = {1, 3},
                               !.after = Tok(3, 0, "pm"), !.next_week = TRUE]) }

NoConstraints == [windows |-> << >>, question |-> NoQuestion]

InitConstraints ==
    /\ ret \in { [op |-> "text", text |-> t, today_weekday |-> wd, result |-> NoConstraints] :
                 t \in ConstraintTexts, wd \in 0..6 }
    /\ thread = MeetingThread(Roster, DefaultMeetingDuration)
    /\ store = NoStore
    /\ inv = 0
    /\ outbox = << >>

ParseConstraints ==
    /\ ret.op = "text"
    /\ ret' = [ret EXCEPT !.op = "parse_constraints",
                          !.result = parse_constraints(ret.text, ret.today_weekday)]
    /\ UNCHANGED <<thread, store, inv, outbox>>

NextConstraints == ParseConstraints

SpecConstraints == InitConstraints /\ [][NextConstraints]_vars

----------------------------------------------------------------------------
(* infra/coordination_store.py: CoordinationStore (SpecStore)              *)

\* None of an Optional[str] / Optional[dict] field
None == [kind |-> "none"]
Str(s) == [kind |-> "str", value |-> s]

\* str.lower() on the addresses of the model
Lower(email) == IF email = "Bob" THEN "bob" ELSE email

\* a participant with every field of the dataclass the store writes
StoredParticipant(p, responded_at, requested_at, last_reminded_at) ==
    [ email |-> p.email, has_responded |-> p.has_responded,
      parsed_windows |-> p.parsed_windows,
      needs_clarification |-> p.needs_clarification,
      clarification_question |-> p.clarification_question,
      status |-> p.status,
      responded_at |-> responded_at, requested_at |-> requested_at,
      last_reminded_at |-> last_reminded_at ]

\* the reading of a participant that leaves the reminder fields at their defaults
participant_from_dict_NoReminderFields(email_norm, pd) ==
    [ email |-> email_norm,
      has_responded |-> pd.has_responded,
      parsed_windows |-> [i \in 1..Len(pd.parsed_windows) |-> tw_from_dict(pd.parsed_windows[i])],
      needs_clarification |-> pd.needs_clarification,
      clarification_question |-> pd.clarification_question,
      status |-> "PENDING",
      responded_at |-> FromIsoDateTime(pd.responded_at),
      requested_at |-> NoTime, last_reminded_at |-> NoTime ]

\* get, lines 52-76; status "" stands for a missing or empty value
participant_from_dict(email_norm, pd) ==
    [ email |-> email_norm,
      has_responded |-> pd.has_responded,
      parsed_windows |-> [i \in 1..Len(pd.parsed_windows) |-> tw_from_dict(pd.parsed_windows[i])],
      needs_clarification |-> pd.needs_clarification,
      clarification_question |-> pd.clarification_question,
      status |-> IF pd.status # "" THEN pd.status
                 ELSE IF pd.has_responded THEN "RESPONDED" ELSE "PENDING",
      responded_at |-> FromIsoDateTime(pd.responded_at),
      requested_at |-> FromIsoDateTime(pd.requested_at),
      last_reminded_at |-> FromIsoDateTime(pd.last_reminded_at) ]

participant_to_dict(p) ==
    [ email |-> p.email, has_responded |-> p.has_responded,
      parsed_windows |-> [i \in 1..Len(p.parsed_windows) |-> tw_to_dict(p.parsed_windows[i])],
      needs_clarification |-> p.needs_clarification,
      clarification_question |-> p.clarification_question,
      responded_at |-> IsoDateTime(p.responded_at),
      status |-> p.status,
      requested_at |-> IsoDateTime(p.requested_at),
      last_reminded_at |-> IsoDateTime(p.last_reminded_at) ]

\* the item put writes under the key of thread.thread_id
put(t) ==
    [ exists |-> TRUE, record_type |-> "COORDINATION_THREAD", thread_id |-> t.thread_id,
      coordination_json |->
        [ thread_id |-> t.thread_id, organizer_email |-> t.organizer_email,
          participants |-> [e \in DOMAIN t.participants |-> participant_to_dict(t.participants[e])],
          timezone |-> t.timezone,
          meeting_duration_minutes |-> t.meeting_duration_minutes,
          subject |-> t.subject, status |-> t.status,
          deadline_at |-> IsoDateTime(t.deadline_at),
          scheduled_start |-> IsoDateTime(t.scheduled_start),
          scheduled_end |-> IsoDateTime(t.scheduled_end),
          scheduling_rationale |-> t.scheduling_rationale,
          pending_candidate |-> t.pending_candidate,
          availability_requests_sent_at |-> IsoDateTime(t.availability_requests_sent_at),
          reminder_status |-> t.reminder_status ] ]

NoThread == [found |-> FALSE]

\* two keys that differ in case only: the later one of the dict remains
get(item) ==
    IF ~item.exists \/ item.record_type # "COORDINATION_THREAD" THEN NoThread
    ELSE LET data == item.coordination_json
             keys == DOMAIN data.participants
         IN [ found |-> TRUE,
              thread_id |-> data.thread_id, organizer_email |-> data.organizer_email,
              participants |->
                  [ n \in {Lower(e) : e \in keys} |->
                      participant_from_dict(n,
                          data.participants[CHOOSE e \in keys : Lower(e) = n]) ],
              timezone |-> IF data.timezone = "" THEN "UTC" ELSE data.timezone,
              meeting_duration_minutes |-> data.meeting_duration_minutes,
              subject |-> data.subject,
              status |-> IF data.status \in ThreadStatus THEN data.status ELSE WAITING,
              deadline_at |-> FromIsoDateTime(data.deadline_at),
              scheduled_start |-> FromIsoDateTime(data.scheduled_start),
              scheduled_end |-> FromIsoDateTime(data.scheduled_end),
              scheduling_rationale |-> data.scheduling_rationale,
              pending_candidate |-> data.pending_candidate,
              availability_requests_sent_at |->
                  FromIsoDateTime(data.availability_requests_sent_at),
              reminder_status |-> IF data.reminder_status = "" THEN "COLLECTING_AVAILABILITY"
                                  ELSE data.reminder_status ]

\* The threads put is given: what get returned, some participants reminded
\* since, and the thread of a caller that kept the address as written ("Bob").
StoredParticipants(e) ==
    { StoredParticipant(Participant(e), NoTime, At(0, 9 * 60), NoTime),
      StoredParticipant(Participant(e), NoTime, At(0, 9 * 60), At(1, 9 * 60)),
      StoredParticipant([Participant(e) EXCEPT !.has_responded = TRUE, !.status = "RESPONDED",
                             !.parsed_windows = <<TimeWindow(1, 13 * 60, 15 * 60),
                                                  TimeWindow(2, 9 * 60, 11 * 60)>>],
                        At(0, 10 * 60), At(0, 9 * 60), NoTime),
      StoredParticipant([Participant(e) EXCEPT !.has_responded = TRUE, !.status = "RESPONDED",
                             !.needs_clarification = TRUE,
                             !.clarification_question = Str("am or pm?")],
                        At(0, 10 * 60), At(0, 9 * 60), At(1, 9 * 60)) }

StoredThreads ==
    { [ found |-> TRUE, thread_id |-> "T1", organizer_email |-> "alice",
        participants |-> ps, timezone |-> tz, meeting_duration_minutes |-> DefaultMeetingDuration,
        subject |-> "Sync", status |-> st.status, deadline_at |-> dl,
        scheduled_start |-> st.scheduled_start, scheduled_end |-> st.scheduled_end,
        scheduling_rationale |-> st.scheduling_rationale,
        pending_candidate |-> st.pending_candidate,
        availability_requests_sent_at |-> At(0, 9 * 60),
        reminder_status |-> IF st.status = SCHEDULED THEN "SCHEDULED"
                            ELSE "COLLECTING_AVAILABILITY" ] :
      ps \in UNION { { f \in [roster -> UNION {StoredParticipants(e) : e \in roster}] :
                          \A e \in roster : f[e].email = e } :
                        roster \in {{"alice", "bob"}, {"alice", "Bob"}} },
      tz \in {"America/New_York", "UTC"},
      dl \in {NoTime, At(2, 9 * 60)},
      st \in { [status |-> WAITING, scheduled_start |-> NoTime, scheduled_end |-> NoTime,
                scheduling_rationale |-> None, pending_candidate |-> None],
               [status |-> NEEDS_CLARIFICATION, scheduled_start |-> NoTime,
                scheduled_end |-> NoTime, scheduling_rationale |-> None,
                pending_candidate |-> Str("{start_local: Tuesday 1:00 PM}")],
               [status |-> SCHEDULED, scheduled_start |-> At(1, 13 * 60),
                scheduled_end |-> At(1, 13 * 60 + 30),
                scheduling_rationale |-> Str("Earliest overlap"), pending_candidate |-> None] } }

InitStore ==
    /\ ret \in { [op |-> "thread", thread |-> t, got |-> NoThread] : t \in StoredThreads }
    /\ thread = MeetingThread(Roster, DefaultMeetingDuration)
    /\ store = NoItem
    /\ inv = 0
    /\ outbox = << >>

StorePut ==
    /\ ret.op = "thread"
    /\ store' = put(ret.thread)
    /\ ret' = [ret EXCEPT !.op = "put"]
    /\ UNCHANGED <<thread, inv, outbox>>

StoreGet ==
    /\ ret.op \in {"thread", "put"}
    /\ ret' = [ret EXCEPT !.op = IF ret.op = "put" THEN "get" ELSE "missing",
                          !.got = get(store)]
    /\ UNCHANGED <<thread, store, inv, outbox>>

NextStore == StorePut \/ StoreGet

SpecStore == InitStore /\ [][NextStore]_vars

----------------------------------------------------------------------------
(* conversation/engine.py: handle_incoming_message (SpecContext)           *)

INTENT_DETECTION == "INTENT_DETECTION"
INFO_GATHERING == "INFO_GATHERING"
CONFIRMATION_CHECK == "CONFIRMATION_CHECK"

\* context.py: a TimeSpec instance is true whatever its value
TimeSpec(value, timezone) == [kind |-> "TimeSpec", value |-> value, timezone |-> timezone]

WorkingMemory == [intent |-> "unknown", participants |-> << >>, time |-> None]

IrisContext == [state |-> INTENT_DETECTION, memory |-> WorkingMemory]

\* a text is the words infer_intent looks for in it
Words(reschedule, schedule_or_meeting) ==
    [reschedule |-> reschedule, schedule_or_meeting |-> schedule_or_meeting]

infer_intent(text) ==
    IF text.reschedule THEN "reschedule"
    ELSE IF text.schedule_or_meeting THEN "schedule"
    ELSE "unknown"

\* the check that looks at the time first
missing_fields_TimeFirst(ctx) ==
    (IF ctx.memory.time = None THEN <<"time">> ELSE << >>)
    \o (IF ctx.memory.participants = << >> THEN <<"participants">> ELSE << >>)

missing_fields(ctx) ==
    (IF ctx.memory.participants = << >> THEN <<"participants">> ELSE << >>)
    \o (IF ctx.memory.time = None THEN <<"time">> ELSE << >>)

is_ready(ctx) == missing_fields(ctx) = << >>

ask_for_missing(field) ==
    IF field = "participants" THEN "Who should be in the meeting?"
    ELSE IF field = "time" THEN "When should it be scheduled?"
    ELSE "Can you provide more details?"

confirm_summary(ctx) == <<"I am ready to schedule the meeting with", ctx.memory.participants>>

\* lines 43-45
Detected(ctx, text) ==
    IF ctx.state = INTENT_DETECTION
    THEN [ctx EXCEPT !.state = INFO_GATHERING, !.memory.intent = infer_intent(text)]
    ELSE ctx

\* lines 47-55 on the context of lines 43-45
Answered(ctx) ==
    IF missing_fields(ctx) # << >>
    THEN [reply |-> ask_for_missing(missing_fields(ctx)[1]), ctx |-> ctx, signal |-> None]
    ELSE IF is_ready(ctx)
    THEN [reply |-> confirm_summary(ctx),
          ctx |-> [ctx EXCEPT !.state = CONFIRMATION_CHECK], signal |-> Str("READY")]
    ELSE [reply |-> "Can you clarify?", ctx |-> ctx, signal |-> None]

handle_incoming_message(ctx, text) == Answered(Detected(ctx, text))

Texts == { Words(r, s) : r \in BOOLEAN, s \in BOOLEAN }
ParticipantLists == {<< >>, <<"bob">>, <<"bob", "carol">>}
TimeSpecs == {None, TimeSpec("tomorrow 3pm", "UTC")}

InitContext ==
    /\ ret = [op |-> "IrisContext", ctx |-> IrisContext, text |-> Words(FALSE, FALSE),
              reply |-> "", signal |-> None]
    /\ thread = MeetingThread(Roster, DefaultMeetingDuration)
    /\ store = NoStore
    /\ inv = 0
    /\ outbox = << >>

\* the caller fills the working memory between two messages
SetMemory ==
    /\ \E ps \in ParticipantLists, t \in TimeSpecs :
          /\ <<ps, t>> # <<ret.ctx.memory.participants, ret.ctx.memory.time>>
          /\ ret' = [ret EXCEPT !.op = "memory", !.ctx.memory.participants = ps,
                                !.ctx.memory.time = t]
    /\ UNCHANGED <<thread, store, inv, outbox>>

HandleIncomingMessage ==
    /\ inv < MaxDeliveries
    /\ \E text \in Texts :
          \E r \in {handle_incoming_message(ret.ctx, text)} :
              ret' = [op |-> "handle_incoming_message", ctx |-> r.ctx, text |-> text,
                      reply |-> r.reply, signal |-> r.signal]
    /\ inv' = inv + 1
    /\ UNCHANGED <<thread, store, outbox>>

NextContext == SetMemory \/ HandleIncomingMessage

SpecContext == InitContext /\ [][NextContext]_vars

----------------------------------------------------------------------------
(* The coordinator with the replies of the current round (SpecRound)       *)

\* "Tue, 02/11: 1pm-3pm", "02/11: 14:00-16:00", "Wed, 02/12: 9-11am",
\* "Tuesday afternoon", "02/11: 1-3", "thanks!"
RoundBodies == {"tue_1pm_3pm", "tue_14_16", "wed_9_11am", "tue_afternoon", "tue_1_3", "thanks"}

\* the windows ingest_participant_reply takes from a body (lines 112-120)
ReplyWindows(b) ==
    WindowsOfText(parse_availability(clean_email_text(Bodies[b])),
                  clean_email_text(Bodies[b]), Now.weekday)

\* an unambiguous reply whose windows end before 24:00
GoodReply(b) ==
    /\ ~parse_availability(clean_email_text(Bodies[b])).raised
    /\ ~parse_availability(clean_email_text(Bodies[b])).needs_clarification
    /\ ReplyWindows(b) # << >>
    /\ \A i \in 1..Len(ReplyWindows(b)) : ReplyWindows(b)[i].end_minute < 24 * 60

\* The round: the replies since the thread was last found not SCHEDULED in which
\* each sender answered once with a good reply and nobody else wrote; tried
\* tells that try_schedule ran between two of them.
NoRound == [replies |-> << >>, tried |-> FALSE]

RoundSenders(round) == {round.replies[i].who : i \in 1..Len(round.replies)}

RoundComplete(round) == RoundSenders(round) = Emails(thread)

RoundAfter(round, who, b, was) ==
    IF who \notin Emails(thread) \/ ~GoodReply(b) THEN NoRound
    ELSE IF round.replies # << >> /\ ~RoundComplete(round) /\ who \notin RoundSenders(round)
    THEN [round EXCEPT !.replies = Append(round.replies, [who |-> who, text |-> b])]
    ELSE IF was # SCHEDULED
    THEN [replies |-> <<[who |-> who, text |-> b]>>, tried |-> FALSE]
    ELSE NoRound

InitRound ==
    /\ thread = MeetingThread(Roster, DefaultMeetingDuration)
    /\ ret = NoCall
    /\ store = NoStore
    /\ inv = NoRound
    /\ outbox = << >>

RoundIngest(who, b) ==
    /\ thread.requests_sent
    /\ \E r \in {ingest_participant_reply(thread, who, Bodies[b], Now.weekday)} :
          /\ thread' = r.thread
          /\ ret' = [NoCall EXCEPT !.op = "ingest_participant_reply", !.who = who,
                                   !.text = b, !.was = thread.status,
                                   !.actions = r.actions, !.raised = r.raised]
    /\ inv' = RoundAfter(inv, who, b, thread.status)
    /\ UNCHANGED <<store, outbox>>

RoundTrySchedule ==
    /\ thread.requests_sent
    /\ \E r \in {try_schedule(thread)} :
          /\ thread' = r.thread
          /\ ret' = [NoCall EXCEPT !.op = "try_schedule", !.was = thread.status,
                                   !.plan = r.plan,
                                   !.actions = r.actions, !.raised = r.raised]
    /\ inv' = IF inv.replies # << >> /\ ~RoundComplete(inv)
              THEN [inv EXCEPT !.tried = TRUE] ELSE inv
    /\ UNCHANGED <<store, outbox>>

NextRound ==
    \/ StartThread
    \/ \E who \in Emails(thread), b \in RoundBodies : RoundIngest(who, b)
    \/ RoundTrySchedule

SpecRound == InitRound /\ [][NextRound]_vars

----------------------------------------------------------------------------
(* The reconciler on adjacent and overlapping windows (SpecUnion)          *)

\* 13:00-13:30, 13:30-14:00, 13:15-13:45, 13:00-14:00, 13:30-14:30
AdjacentPool ==
    { TimeWindow(0, 13 * 60, 13 * 60 + 30), TimeWindow(0, 13 * 60 + 30, 14 * 60),
      TimeWindow(0, 13 * 60 + 15, 13 * 60 + 45), TimeWindow(0, 13 * 60, 14 * 60),
      TimeWindow(0, 13 * 60 + 30, 14 * 60 + 30) }

AdjacentLists == UNION {[1..k -> AdjacentPool] : k \in 1..2}

InitUnion ==
    /\ \E duration \in Durations :
         \E a \in AdjacentLists, b \in AdjacentLists :
            thread = ThreadWith(Roster, <<a, b>>, duration)
    /\ ret = NoReconcile
    /\ store = NoStore
    /\ inv = NoInvocations
    /\ outbox = << >>

NextUnion == Reconcile

SpecUnion == InitUnion /\ [][NextUnion]_vars

----------------------------------------------------------------------------
(* The coordinator on threads with a duration_minutes (SpecDuration)       *)

\* unset, an hour, fifteen minutes
ThreadDurations == {0, 60, 15}

\* "Tue, 02/11: 1pm-3pm", "02/11: 14:00-16:00", "02/11: 2:45pm-3pm", "Wed, 02/12: 9-11am"
DurationBodies == {"tue_1pm_3pm", "tue_14_16", "tue_quarter", "wed_9_11am"}

InitDuration ==
    /\ \E d \in ThreadDurations :
          thread = [MeetingThread(Roster, DefaultMeetingDuration) EXCEPT !.duration_minutes = d]
    /\ ret = NoCall
    /\ store = NoStore
    /\ inv = NoInvocations
    /\ outbox = << >>

NextDuration ==
    \/ StartThread
    \/ \E who \in Emails(thread), b \in DurationBodies : Ingest(who, b)
    \/ TrySchedule

SpecDuration == InitDuration /\ [][NextDuration]_vars

----------------------------------------------------------------------------
(* entrypoints/reminder_handler.py on the stored thread (SpecRemind)       *)

\* a datetime of the model in minutes since the midnight of today
Minutes(dt) == dt.day * 24 * 60 + dt.minute

\* _StoreAdapter.get of the inbound entrypoint on the item of the table: the
\* participants keep the keys of the item, and the fields the adapter does
\* not read keep the defaults of the dataclasses
StoreAdapter_get(item) ==
    IF ~item.exists \/ item.record_type # "COORDINATION_THREAD" THEN NoThread
    ELSE LET data == item.coordination_json
         IN [ found |-> TRUE,
              thread_id |-> data.thread_id, organizer_email |-> data.organizer_email,
              participants |->
                  [ e \in DOMAIN data.participants |->
                      [ email |-> e,
                        has_responded |-> data.participants[e].has_responded,
                        parsed_windows |->
                            [i \in 1..Len(data.participants[e].parsed_windows) |->
                                tw_from_dict(data.participants[e].parsed_windows[i])],
                        needs_clarification |-> data.participants[e].needs_clarification,
                        clarification_question |->
                            data.participants[e].clarification_question,
                        status |-> "PENDING",
                        responded_at |-> NoTime,
                        requested_at |-> NoTime, last_reminded_at |-> NoTime ] ],
              timezone |-> data.timezone,
              meeting_duration_minutes |-> data.meeting_duration_minutes,
              subject |-> data.subject,
              status |-> data.status,
              deadline_at |-> FromIsoDateTime(data.deadline_at),
              scheduled_start |-> FromIsoDateTime(data.scheduled_start),
              scheduled_end |-> FromIsoDateTime(data.scheduled_end),
              scheduling_rationale |-> data.scheduling_rationale,
              pending_candidate |-> data.pending_candidate,
              availability_requests_sent_at |->
                  FromIsoDateTime(data.availability_requests_sent_at),
              reminder_status |-> "COLLECTING_AVAILABILITY" ]

\* _StoreAdapter.put: the keys the adapter does not write are missing from the
\* item ("" and null stand for a missing key)
StoreAdapter_put(t) ==
    [ exists |-> TRUE, record_type |-> "COORDINATION_THREAD", thread_id |-> t.thread_id,
      coordination_json |->
        [ thread_id |-> t.thread_id, organizer_email |-> t.organizer_email,
          participants |->
              [ e \in DOMAIN t.participants |->
                  [ email |-> t.participants[e].email,
                    has_responded |-> t.participants[e].has_responded,
                    parsed_windows |->
                        [i \in 1..Len(t.participants[e].parsed_windows) |->
                            tw_to_dict(t.participants[e].parsed_windows[i])],
                    needs_clarification |-> t.participants[e].needs_clarification,
                    clarification_question |-> t.participants[e].clarification_question,
                    responded_at |-> IsoDateTime(t.participants[e].responded_at),
                    status |-> "",
                    requested_at |-> IsoDateTime(NoTime),
                    last_reminded_at |-> IsoDateTime(NoTime) ] ],
          timezone |-> t.timezone,
          meeting_duration_minutes |-> t.meeting_duration_minutes,
          subject |-> t.subject, status |-> t.status,
          deadline_at |-> IsoDateTime(t.deadline_at),
          scheduled_start |-> IsoDateTime(t.scheduled_start),
          scheduled_end |-> IsoDateTime(t.scheduled_end),
          scheduling_rationale |-> t.scheduling_rationale,
          pending_candidate |-> t.pending_candidate,
          availability_requests_sent_at |-> IsoDateTime(t.availability_requests_sent_at),
          reminder_status |-> "" ] ]

\* lines 94-106 of lambda_handler: the participant is reminded in this run
Due(t, p, now) ==
    /\ p.status = "PENDING"
    /\ ~p.last_reminded_at.set
    /\ \E requested_at \in {IF p.requested_at.set THEN p.requested_at
                            ELSE t.availability_requests_sent_at} :
          /\ requested_at.set
          /\ ~(Minutes(requested_at) + REMINDER_DELAY_SECONDS \div 60 > now)

NoReminders == [skipped |-> "", item |-> NoItem, sent |-> << >>]

\* the reminders of one run, in the order of the participants, and the item
\* store.put writes when one of them was sent
Reminded(item, t, now, reminded) ==
    [ skipped |-> "",
      item |-> IF reminded = {} THEN item
               ELSE put([t EXCEPT !.participants =
                            [e \in DOMAIN t.participants |->
                                IF e \in reminded
                                THEN [t.participants[e] EXCEPT
                                         !.last_reminded_at = At(0, now)]
                                ELSE t.participants[e]]]),
      sent |-> [i \in 1..Len(SelectSeq(Roster, LAMBDA e : e \in reminded)) |->
                   [to |-> SelectSeq(Roster, LAMBDA e : e \in reminded)[i], at |-> now]] ]

\* lambda_handler; delivered: the addresses send_raw_email accepts in this run
lambda_handler(item, now, delivered) ==
    IF ~get(item).found
    THEN [NoReminders EXCEPT !.skipped = "missing_thread", !.item = item]
    ELSE IF get(item).status = SCHEDULED \/ get(item).reminder_status \in {"SCHEDULED", "CLOSED"}
    THEN [NoReminders EXCEPT !.skipped = "already_scheduled", !.item = item]
    ELSE Reminded(item, get(item), now,
                  {e \in DOMAIN get(item).participants :
                      Due(get(item), get(item).participants[e], now)} \cap delivered)

\* The threads of the table when the first reminder run may come: the
\* requests went out at 9:00 and it is 10:00
ReminderParticipants(e) ==
    { StoredParticipant(Participant(e), NoTime, At(0, 9 * 60), NoTime),
      StoredParticipant(Participant(e), NoTime, NoTime, NoTime),
      StoredParticipant([Participant(e) EXCEPT !.has_responded = TRUE, !.status = "RESPONDED",
                             !.parsed_windows = <<TimeWindow(1, 13 * 60, 15 * 60)>>],
                        At(0, 9 * 60 + 30), At(0, 9 * 60), NoTime) }

ReminderThreads ==
    { [ found |-> TRUE, thread_id |-> "T1", organizer_email |-> "alice",
        participants |-> ps, timezone |-> "UTC",
        meeting_duration_minutes |-> DefaultMeetingDuration,
        subject |-> "Sync", status |-> st, deadline_at |-> NoTime,
        scheduled_start |-> NoTime, scheduled_end |-> NoTime,
        scheduling_rationale |-> None, pending_candidate |-> None,
        availability_requests_sent_at |-> sent_at,
        reminder_status |-> rs ] :
      ps \in { f \in [{"alice", "bob"} -> UNION {ReminderParticipants(e) : e \in {"alice", "bob"}}] :
                 \A e \in {"alice", "bob"} : f[e].email = e },
      st \in {WAITING, SCHEDULED},
      sent_at \in {NoTime, At(0, 9 * 60)},
      rs \in {"COLLECTING_AVAILABILITY", "CLOSED"} }

InitRemind ==
    /\ store \in {put(t) : t \in ReminderThreads}
    /\ inv = [now |-> 10 * 60, runs |-> 0]
    /\ ret = [op |-> "none", skipped |-> ""]
    /\ outbox = << >>
    /\ thread = MeetingThread(Roster, DefaultMeetingDuration)

\* an hour passes
Tick ==
    /\ inv.now < (10 + MaxHours) * 60
    /\ inv' = [inv EXCEPT !.now = inv.now + 60]
    /\ ret' = [op |-> "tick", skipped |-> ""]
    /\ UNCHANGED <<thread, store, outbox>>

\* one invocation of the reminder handler
LambdaHandler ==
    /\ inv.runs < MaxReminderRuns
    /\ \E delivered \in SUBSET {"alice", "bob"} :
          \E r \in {lambda_handler(store, inv.now, delivered)} :
             /\ store' = r.item
             /\ outbox' = outbox \o r.sent
             /\ ret' = [op |-> "lambda_handler", skipped |-> r.skipped]
    /\ inv' = [inv EXCEPT !.runs = inv.runs + 1]
    /\ UNCHANGED thread

\* the inbound entrypoint on the thread: the store adapter loads it and saves it
StoreAdapterLoadSave ==
    /\ StoreAdapter_get(store).found
    /\ store' = StoreAdapter_put(StoreAdapter_get(store))
    /\ ret' = [op |-> "load_save", skipped |-> ""]
    /\ UNCHANGED <<thread, inv, outbox>>

NextRemind == Tick \/ LambdaHandler \/ StoreAdapterLoadSave

SpecRemind == InitRemind /\ [][NextRemind]_vars

----------------------------------------------------------------------------
(* infra/threading.py: the thread id of an inbound message (SpecThread)    *)

\* Message ids are pairs: <<"m", n>> is the Message-Id of the n-th delivery,
\* <<"s", n>> its SES message id, <<"x", 0>> the id of a message Iris never
\* received.  A header value is the id and whether it is written as <id>.
NoId == <<"", 0>>
Bracketed(id) == [angle |-> TRUE, id |-> id]
NoHeader == [angle |-> FALSE, id |-> NoId]

\* replace("\n", ""), strip(), strip("<>"), strip()
_normalize_message_id(value) == value.id

\* _add of extract_message_ids: empty and repeated ids are skipped
AddId(ids, norm) ==
    IF norm = NoId \/ \E i \in 1..Len(ids) : ids[i] = norm THEN ids ELSE Append(ids, norm)

RECURSIVE AddReferences(_, _, _)
\* re.findall(r"<([^>]+)>", refs): the ids written in angle brackets, in order
AddReferences(ids, refs, i) ==
    IF i > Len(refs) THEN ids
    ELSE AddReferences(IF refs[i].angle THEN AddId(ids, _normalize_message_id(refs[i]))
                       ELSE ids,
                       refs, i + 1)

extract_message_ids(eml) ==
    AddReferences(AddId(AddId(<< >>, _normalize_message_id(eml.message_id)),
                        _normalize_message_id(eml.in_reply_to)),
                  eml.references, 1)

\* the alias records of the table; no item: exists = FALSE
NoAlias == [exists |-> FALSE, thread_id |-> NoId]
ThreadAlias(thread_id) == [exists |-> TRUE, thread_id |-> thread_id]

\* the candidates of resolve_thread_id, lines 63-67; those of handle_ses_event,
\* lines 157-159, are the same list
Candidates(eml, ses_message_id) ==
    AddId(extract_message_ids(eml), _normalize_message_id([angle |-> FALSE, id |-> ses_message_id]))

RECURSIVE FirstAlias(_, _, _)
\* the loop of lines 69-74; the thread id "thread#<id>" is written as the id
FirstAlias(table, candidates, i) ==
    IF i > Len(candidates) THEN candidates[1]
    ELSE IF table[candidates[i]].exists /\ table[candidates[i]].thread_id # NoId
    THEN table[candidates[i]].thread_id
    ELSE FirstAlias(table, candidates, i + 1)

resolve_thread_id(eml, ses_message_id, table) ==
    FirstAlias(table, Candidates(eml, ses_message_id), 1)

\* put_item for every candidate: an alias that exists is overwritten
upsert_thread_aliases(table, candidates, thread_id) ==
    [id \in DOMAIN table |->
        IF \E i \in 1..Len(candidates) : candidates[i] = id
        THEN ThreadAlias(thread_id) ELSE table[id]]

\* The ids of the model and the headers of the n-th delivery: its own
\* Message-Id or none, and ids of earlier deliveries or of the outside message
\* in In-Reply-To and in References.
ExternalId == <<"x", 0>>
AllIds == {<<k, n>> : k \in {"m", "s"}, n \in 1..MaxDeliveries} \cup {ExternalId}
EarlierIds(n) == {<<"m", k>> : k \in 1..(n - 1)} \cup {ExternalId}

Headers(n) ==
    { [message_id |-> mid, in_reply_to |-> irt, references |-> refs] :
        mid \in {NoHeader, Bracketed(<<"m", n>>)},
        irt \in {NoHeader} \cup {Bracketed(id) : id \in EarlierIds(n)},
        refs \in {<< >>} \cup {<<Bracketed(id)>> : id \in EarlierIds(n)}
                 \cup {<<[angle |-> FALSE, id |-> ExternalId], Bracketed(<<"m", 1>>)>>} }

NoResolution == [op |-> "none", eml |-> [message_id |-> NoHeader, in_reply_to |-> NoHeader,
                                         references |-> << >>],
                 thread_id |-> NoId]

\* inv.handled[id]: the thread id under which the message with this
\* Message-Id was handled
InitThread ==
    /\ store = [id \in AllIds |-> NoAlias]
    /\ inv = [n |-> 0, handled |-> [id \in AllIds |-> NoId]]
    /\ ret = NoResolution
    /\ outbox = << >>
    /\ thread = MeetingThread(Roster, DefaultMeetingDuration)

\* handle_ses_event, lines 157-166, on the next delivery
ResolveThread ==
    /\ inv.n < MaxDeliveries
    /\ \E eml \in Headers(inv.n + 1) :
          \E tid \in {resolve_thread_id(eml, <<"s", inv.n + 1>>, store)} :
             /\ store' = upsert_thread_aliases(store, Candidates(eml, <<"s", inv.n + 1>>), tid)
             /\ ret' = [op |-> "resolve", eml |-> eml, thread_id |-> tid]
             /\ inv' = [n |-> inv.n + 1,
                        handled |-> [id \in AllIds |->
                                        IF id = _normalize_message_id(eml.message_id)
                                        THEN tid ELSE inv.handled[id]]]
    /\ UNCHANGED <<thread, outbox>>

NextThread == ResolveThread

SpecThread == InitThread /\ [][NextThread]_vars

----------------------------------------------------------------------------
(* entrypoints/handler.py: the invite of the single-participant flow       *)
(* (SpecInvite)                                                            *)

\* tomorrow at DEFAULT_START_HOUR, for DEFAULT_DURATION_MINUTES
next_day_at_default_time ==
    [ raised |-> FALSE,
      start |-> Moment(1, DEFAULT_START_HOUR * 60),
      end |-> Moment(1 + (DEFAULT_START_HOUR * 60 + DEFAULT_DURATION_MINUTES) \div (24 * 60),
                     (DEFAULT_START_HOUR * 60 + DEFAULT_DURATION_MINUTES) % (24 * 60)) ]

\* "H:MM AM" / "H:MM PM" as the groups the time expression reads back
_format_time_12h(minutes) ==
    IF minutes \div 60 = 0 THEN Tok(12, minutes % 60, "am")
    ELSE IF minutes \div 60 = 12 THEN Tok(12, minutes % 60, "pm")
    ELSE IF minutes \div 60 > 12 THEN Tok(minutes \div 60 - 12, minutes % 60, "pm")
    ELSE Tok(minutes \div 60, minutes % 60, "am")

\* the start_local and end_local strings _window_to_candidate and
\* _candidate_from_time_only write for the candidate
CandidateStrings(c) ==
    [ start_local |-> Local(c.weekday, _format_time_12h(c.start_minute)),
      end_local |-> Local(c.weekday, _format_time_12h(c.end_minute)) ]

\* lines 514-523: the default, replaced when the chosen candidate converts
InviteTimes(chosen_candidate, today_weekday, now_minute) ==
    IF candidate_to_datetimes(chosen_candidate, today_weekday, now_minute).raised
    THEN next_day_at_default_time
    ELSE candidate_to_datetimes(chosen_candidate, today_weekday, now_minute)

\* The decisions the entrypoint schedules from.  Candidates of the AI hint:
\* every start_local that names a weekday (what _candidate_has_weekday lets
\* through) with every end_local.  Candidates of the text: the earliest of one
\* or two windows the parsers returned.
HintCandidates ==
    { c \in LocalCandidates : ~c.start_local.empty /\ c.start_local.weekday # NoWeekday }

TextWindows ==
    { TimeWindow(1, 13 * 60, 17 * 60), TimeWindow(1, 13 * 60, 15 * 60),
      TimeWindow(1, 13 * 60, 13 * 60 + 30), TimeWindow(8, 13 * 60, 13 * 60 + 30),
      TimeWindow(0, 9 * 60, 9 * 60 + 30), TimeWindow(2, 23 * 60, 24 * 60) }

TextWindowLists ==
    {<<w>> : w \in TextWindows}
        \cup {ws \in {<<a, b>> : a \in TextWindows, b \in TextWindows} : ws[1] # ws[2]}

InviteNows == {11 * 60 + 30, 15 * 60}

NoInvite == [start |-> Moment(0, 0), end |-> Moment(0, 0)]

InitInvite ==
    /\ ret \in { [op |-> "decision", source |-> "ai", windows |-> << >>,
                  chosen_candidate |-> c, today_weekday |-> wd, now_minute |-> n,
                  invite |-> NoInvite] :
                 c \in HintCandidates, wd \in {0, 1}, n \in InviteNows }
          \cup { [op |-> "decision", source |-> "text", windows |-> ws,
                  chosen_candidate |->
                      CandidateStrings(DecideFromText(NoConversation, ws, NoTimeOfDay,
                                                      NoHint, wd).chosen_candidate),
                  today_weekday |-> wd, now_minute |-> n, invite |-> NoInvite] :
                 ws \in TextWindowLists, wd \in {0, 1}, n \in InviteNows }
    /\ thread = MeetingThread(Roster, DefaultMeetingDuration)
    /\ store = NoStore
    /\ inv = 0
    /\ outbox = << >>

\* the scheduling path of handle_ses_event: the invite for start and end
SendInvite ==
    /\ ret.op = "decision"
    /\ \E r \in {InviteTimes(ret.chosen_candidate, ret.today_weekday, ret.now_minute)} :
          ret' = [ret EXCEPT !.op = "invite", !.invite = [start |-> r.start, end |-> r.end]]
    /\ UNCHANGED <<thread, store, inv, outbox>>

NextInvite == SendInvite

SpecInvite == InitInvite /\ [][NextInvite]_vars

----------------------------------------------------------------------------
(* Properties of the coordinator (Spec)                                    *)

IsIngest(r) == r.op = "ingest_participant_reply"
IsTrySchedule(r) == r.op = "try_schedule"

SameSchedule(t, u) ==
    /\ u.scheduled_start = t.scheduled_start
    /\ u.scheduled_end = t.scheduled_end

\* C1: once the thread is SCHEDULED, an ingest_participant_reply call returns
\* no actions and leaves the status SCHEDULED and scheduled_start/end as they
\* were, and no try_schedule call returns another plan.
C1_ScheduledIsFinal ==
    [][ thread.status = SCHEDULED =>
          /\ thread'.status = SCHEDULED
          /\ SameSchedule(thread, thread')
          /\ ret'.actions = << >>
          /\ ~ret'.plan.set ]_vars

\* a reply arrived on a SCHEDULED thread
C1_ReplyAfterScheduled ==
    /\ IsIngest(ret)
    /\ ret.was = SCHEDULED
    /\ ret.who \in Emails(thread)

\* every participant answered and nobody is being asked
Eligible(t) ==
    \A e \in Emails(t) :
        /\ t.participants[e].has_responded
        /\ ~t.participants[e].needs_clarification

WindowsOf(t, e) ==
    {t.participants[e].parsed_windows[i] :
        i \in 1..Len(t.participants[e].parsed_windows)}

AllWindows(t) == UNION {WindowsOf(t, e) : e \in Emails(t)}

\* the meeting fits, from minute s of day d, in a window of every participant
FitsAll(t, d, s) ==
    \A e \in Emails(t) :
        \E w \in WindowsOf(t, e) :
            /\ w.day = d
            /\ w.start_minute <= s
            /\ s + t.meeting_duration_minutes <= w.end_minute

\* a common slot, if there is one, can start where some window starts
NoCommonSlot(t) == \A w \in AllWindows(t) : ~FitsAll(t, w.day, w.start_minute)

Untouched(t, u, e) == u.participants[e] = t.participants[e]

\* C3: when every participant answered, nobody is being asked and there is
\* no common slot (someone may have no windows at all), try_schedule sets
\* WAITING, returns the one "need more availability" message to everybody,
\* and leaves every participant without response and without windows.
C3_NoOverlapResets ==
    [][ (IsTrySchedule(ret') /\ thread.status # SCHEDULED
            /\ Eligible(thread) /\ NoCommonSlot(thread)) =>
          /\ thread'.status = WAITING
          /\ ret'.actions = <<OutboundMessage(thread.roster, "need more availability")>>
          /\ \A e \in Emails(thread) :
                /\ ~thread'.participants[e].has_responded
                /\ thread'.participants[e].parsed_windows = << >> ]_vars

\* try_schedule met a participant without windows
C3_SomeoneWithoutWindows ==
    /\ IsTrySchedule(ret)
    /\ ret.actions # << >>
    /\ \E e \in Emails(thread) : thread.participants[e].has_responded
    /\ \E e \in Emails(thread) : thread.participants[e].parsed_windows = << >>

\* the status changes a thread that was never scheduled goes through
Edges ==
    { <<WAITING, NEEDS_CLARIFICATION>>, <<NEEDS_CLARIFICATION, WAITING>>,
      <<WAITING, READY_TO_SCHEDULE>>, <<READY_TO_SCHEDULE, SCHEDULED>>,
      <<READY_TO_SCHEDULE, WAITING>> }

MoreEdges ==
    { <<NEEDS_CLARIFICATION, READY_TO_SCHEDULE>>,
      <<READY_TO_SCHEDULE, NEEDS_CLARIFICATION>> }

NeverScheduled(t) == ~t.scheduled_start.set

Ambiguous(text, wd) ==
    LET body_text == clean_email_text(text)
        result == parse_availability(body_text)
        nl == parse_constraints(body_text, wd)
    IN \/ result.needs_clarification
       \/ /\ result.windows = << >>
          /\ nl.windows = << >>
          /\ nl.question # NoQuestion

\* C5: an ambiguous reply of a participant marks that participant, and no
\* other, as needing clarification, sets the status NEEDS_CLARIFICATION and
\* returns one message, to that participant alone; the other participants
\* are left as they were.
C5_ClarificationToSenderOnly ==
    [][ \A who \in Emails(thread), b \in BodyNames :
          (IsIngest(ret') /\ ret'.who = who /\ ret'.text = b
                /\ Ambiguous(Bodies[b], Now.weekday)) =>
             /\ thread'.participants[who].needs_clarification
             /\ thread'.status = NEEDS_CLARIFICATION
             /\ Len(ret'.actions) = 1
             /\ ret'.actions[1].to = <<who>>
             /\ \A e \in Emails(thread) \ {who} : Untouched(thread, thread', e) ]_vars

\* an ambiguous reply was taken in while the other participant had answered
C5_AskedOne ==
    /\ IsIngest(ret)
    /\ ret.who \in Emails(thread)
    /\ Ambiguous(Bodies[ret.text], Now.weekday)
    /\ \E e \in Emails(thread) \ {ret.who} :
          /\ thread.participants[e].has_responded
          /\ ~thread.participants[e].needs_clarification

EveryoneHasWindows(t) == \A e \in Emails(t) : t.participants[e].parsed_windows # << >>

\* C6: try_schedule returns a plan, sets SCHEDULED or writes scheduled_start
\* and scheduled_end only when every participant has responded, none needs
\* clarification and each has a window; otherwise it returns no plan and
\* leaves the scheduled fields alone.
C6_PlanOnlyWhenEligible ==
    [][ IsTrySchedule(ret') =>
          \/ /\ Eligible(thread)
             /\ EveryoneHasWindows(thread)
          \/ /\ ~ret'.plan.set
             /\ SameSchedule(thread, thread')
             /\ thread'.status = SCHEDULED => thread.status = SCHEDULED ]_vars

\* try_schedule returned a plan
C6_Planned ==
    /\ IsTrySchedule(ret)
    /\ ret.plan.set
    /\ thread.status = SCHEDULED
    /\ thread.scheduled_start = ret.plan.start

\* C7: after an ingest_participant_reply or try_schedule call, a participant
\* who needs clarification means the status is NEEDS_CLARIFICATION.
C7_PendingClarificationShows ==
    (IsIngest(ret) \/ IsTrySchedule(ret)) =>
        ((\E e \in Emails(thread) : thread.participants[e].needs_clarification)
            => thread.status = NEEDS_CLARIFICATION /\ ~thread.status \in {READY_TO_SCHEDULE, SCHEDULED})

\* try_schedule ran while one participant was still being asked
C7_TriedWhilePending ==
    /\ IsTrySchedule(ret)
    /\ any_needs_clarification(thread)
    /\ all_responded(thread)

----------------------------------------------------------------------------
(* Properties of the reconciler (SpecRecon)                                *)

Reconciled == ret.op = "find_earliest_overlap"

\* one window of each of the first k participants
Picks(t, k) ==
    {f \in [{t.roster[i] : i \in 1..k} -> AllWindows(t)] :
        \A e \in DOMAIN f : f[e] \in WindowsOf(t, e)}

PickStart(f) == CHOOSE s \in {f[e].start_minute : e \in DOMAIN f} :
                    \A e \in DOMAIN f : f[e].start_minute <= s
PickEnd(f) == CHOOSE s \in {f[e].end_minute : e \in DOMAIN f} :
                    \A e \in DOMAIN f : s <= f[e].end_minute
SameDay(f) == \A e1, e2 \in DOMAIN f : f[e1].day = f[e2].day
PickDay(f) == CHOOSE d \in {f[e].day : e \in DOMAIN f} : TRUE

\* the windows of the intersection of the first k lists
Common(t, k) ==
    {TimeWindow(PickDay(f), PickStart(f), PickEnd(f)) :
        f \in {g \in Picks(t, k) : SameDay(g) /\ PickStart(g) < PickEnd(g)}}

LongEnough(t) ==
    {w \in Common(t, Len(t.roster)) :
        w.end_minute - w.start_minute >= t.meeting_duration_minutes}

Earliest(ws) == CHOOSE w \in ws : \A v \in ws :
                    \/ w.day < v.day
                    \/ (w.day = v.day /\ w.start_minute <= v.start_minute)

\* C9: find_earliest_overlap returns the slot that starts with the
\* (day, start_minute)-smallest window of the intersection of all lists that
\* is at least meeting_duration_minutes long and lasts that long.
C9_EarliestLongEnough ==
    (Reconciled /\ LongEnough(thread) # {}) =>
        LET w == Earliest(LongEnough(thread))
        IN ret.slot = ScheduledSlot(w.day, w.start_minute,
                                    w.start_minute + thread.meeting_duration_minutes)

\* 13:00-15:00, 14:00-16:00 and 14:30-15:30 with 30 minutes give 14:30-15:00
C9_Example ==
    /\ Reconciled
    /\ thread.roster = <<"alice", "bob", "carol">>
    /\ thread.meeting_duration_minutes = 30
    /\ thread.participants["alice"].parsed_windows = <<TimeWindow(0, 780, 900)>>
    /\ thread.participants["bob"].parsed_windows = <<TimeWindow(0, 840, 960)>>
    /\ thread.participants["carol"].parsed_windows = <<TimeWindow(0, 870, 930)>>
    /\ ret.slot = ScheduledSlot(0, 870, 900)

\* C10: find_earliest_overlap returns none when the list of some participant,
\* wherever in the roster and also of the only one, is empty, and when the
\* intersection is empty after some participant.
C10_NoneWhenEmpty ==
    (/\ Reconciled
     /\ \/ \E e \in Emails(thread) : thread.participants[e].parsed_windows = << >>
        \/ \E k \in 1..Len(thread.roster) : Common(thread, k) = {}) =>
        ret.slot = NoSlot

\* the last of three participants has no windows, the other two overlap
C10_LastListEmpty ==
    /\ Reconciled
    /\ Len(thread.roster) = 3
    /\ thread.participants[thread.roster[3]].parsed_windows = << >>
    /\ Common(thread, 2) # {}
    /\ ret.slot = NoSlot

----------------------------------------------------------------------------
(* Properties of concurrent invocations (SpecConc)                         *)

\* the record after one invocation ran alone on the record item
Persisted(item, r) == IF r.raised THEN item ELSE StoreAdapterPut(r.thread)

RanAlone(item, i) ==
    Persisted(item, handle(StoreAdapterGet(item), inv[i].from_email,
                           Bodies[inv[i].body], FALSE, Now.weekday))

BothDone == \A i \in DOMAIN inv : inv[i].pc \in {"done", "failed"}

\* C8: when two invocations for two participants of a thread overlap, the
\* writes are serialized: the thread persisted in the end is what the two
\* leave behind when one runs after the other, with both responses in it.
C8_WritesSerialized ==
    BothDone =>
        \/ store = RanAlone(RanAlone(StartedItem, "alice"), "bob")
        \/ store = RanAlone(RanAlone(StartedItem, "bob"), "alice")

\* both invocations finished and only one response is in the record
C8_LostResponse ==
    /\ BothDone
    /\ \E e \in {"alice", "bob"} : ~store.participants[e].has_responded
    /\ RanAlone(RanAlone(StartedItem, "alice"), "bob").participants["alice"].has_responded
    /\ RanAlone(RanAlone(StartedItem, "alice"), "bob").participants["bob"].has_responded

----------------------------------------------------------------------------
(* Properties of the entrypoint (SpecMsg)                                  *)

\* C2: an invocation for a message whose first invocation completed, its
\* record written, sends no email and changes neither the conversation nor
\* the coordination thread, whichever path the first invocation took.
C2_RedeliveryChangesNothing ==
    [][ \A m \in Messages :
          (store.messages[m.message_id].exists /\ inv' # inv
                /\ ret'.message_id = m.message_id) =>
             /\ outbox' = outbox
             /\ store'.coord = store.coord
             /\ store'.conv = store.conv ]_vars

\* a message of the coordination path was delivered again
C2_CoordinationAgain ==
    /\ ret.action = "coordination"
    /\ ret.op = "handle_ses_event"
    /\ inv >= 2
    /\ \E i \in 1..Len(outbox) : \E j \in 1..Len(outbox) :
          i # j /\ outbox[i] = outbox[j] /\ outbox[i].kind = "quick clarification"

----------------------------------------------------------------------------
(* Further properties of the coordinator (Spec)                            *)

\* C11: try_schedule on a thread whose status is SCHEDULED returns no plan
\* and no actions and leaves the thread and every participant as they were.
C11_ScheduledTryIsNoOp ==
    [][ (IsTrySchedule(ret') /\ thread.status = SCHEDULED) =>
          /\ ~ret'.plan.set
          /\ ret'.actions = << >>
          /\ ~ret'.raised
          /\ thread' = thread ]_vars

\* try_schedule was called on a scheduled thread whose participants all
\* have windows
C11_TriedAgain ==
    /\ IsTrySchedule(ret)
    /\ ret.was = SCHEDULED
    /\ thread.status = SCHEDULED
    /\ Eligible(thread)
    /\ EveryoneHasWindows(thread)

\* C16: an exception of the time parsers (a structured line whose MM/DD is
\* no calendar date) does not leave ingest_participant_reply: the reply
\* counts as one without a usable time and the sender as having responded.
C16_ParseErrorContained ==
    IsIngest(ret) =>
        /\ ~ret.raised
        /\ ret.who \in Emails(thread) => thread.participants[ret.who].has_responded

\* "02/30: 1pm-3pm": the call raises after the sender was marked RESPONDED
\* and before has_responded is set
C16_IngestRaised ==
    /\ IsIngest(ret)
    /\ ret.text = "bad_date"
    /\ ret.raised
    /\ thread.participants[ret.who].status = "RESPONDED"
    /\ ~thread.participants[ret.who].has_responded

\* the cleaned reply has an accept-all phrase and no negation, and neither
\* parser finds a window or asks
AcceptsAll(text) ==
    /\ \E i \in 1..Len(text) : text[i].kind = "text" /\ text[i].feat.accept
    /\ \A i \in 1..Len(text) : ~text[i].feat.negation
    /\ \E r \in {parse_availability(text)} :
          ~r.raised /\ r.windows = << >> /\ ~r.needs_clarification
    /\ \E r \in {parse_constraints(text, Now.weekday)} :
          r.windows = << >> /\ r.question = NoQuestion

\* the thread without one participant
Without(t, email) == [t EXCEPT !.roster = SelectSeq(t.roster, LAMBDA e : e # email)]

\* C23: a reply with an accept-all phrase from which neither parser gets a
\* window or a question gives the sender the window 00:00-24:00 on each of
\* the 14 days from today, no clarification and no action; the sender has
\* responded, and the reconciler finds what it finds for the others alone.
C23_AcceptAllIsFullAvailability ==
    [][ (/\ IsIngest(ret')
         /\ ret'.who \in Emails(thread)
         /\ AcceptsAll(clean_email_text(Bodies[ret'.text]))) =>
           /\ ~ret'.raised
           /\ ret'.actions = << >>
           /\ thread'.participants[ret'.who].has_responded
           /\ ~thread'.participants[ret'.who].needs_clarification
           /\ Len(thread'.participants[ret'.who].parsed_windows) = 14
           /\ \A i \in 1..14 :
                 thread'.participants[ret'.who].parsed_windows[i] =
                     [day |-> i - 1, start_minute |-> 0, end_minute |-> 1440]
           /\ find_earliest_overlap(thread') =
                 find_earliest_overlap(Without(thread', ret'.who)) ]_vars

\* bob offered Tuesday 1pm-3pm, alice says "those times work for me": the
\* thread is ready and the slot is bob's 13:00-13:30
C23_AcceptedAll ==
    /\ IsIngest(ret)
    /\ ret.who = "alice"
    /\ ret.text = "works_for_me"
    /\ thread.status = READY_TO_SCHEDULE
    /\ thread.participants["bob"].parsed_windows = <<TimeWindow(1, 13 * 60, 15 * 60)>>
    /\ find_earliest_overlap(thread) = ScheduledSlot(1, 13 * 60, 13 * 60 + 30)

----------------------------------------------------------------------------
(* Properties of the conversation engine (SpecEngine)                      *)

IsProcess(r) == r.op = "process_incoming_email"

\* the windows the structured lines of the body of the last email give
StructuredWindows == parse_availability(Bodies[ret.email.body]).windows

\* the windows the constraint grammar gives for it
ConstraintWindows == parse_constraints(Bodies[ret.email.body], Now.weekday).windows

\* the candidates of the hint of the last email that name a weekday
Usable == SelectSeq(ret.ai_parsed.candidates, LAMBDA c : c.weekday # NoWeekday)

FirstOf(windows) == _window_to_candidate(SortWindows(windows, 1, << >>)[1], Now.weekday)

ScheduledFrom(candidate) ==
    /\ ret.decision.action = "schedule"
    /\ ret.decision.chosen_candidate = candidate
    /\ store.last_candidate = candidate

\* C12: a structured time in the text is what gets scheduled even when the
\* hint has a candidate; a candidate of the hint is used only when the text
\* has no structured time; the constraint grammar only when neither is there.
C12_StructuredTextFirst ==
    IsProcess(ret) =>
        /\ StructuredWindows # << >> => ScheduledFrom(FirstOf(StructuredWindows))
        /\ (StructuredWindows = << >> /\ Usable # << >>) =>
               \E i \in 1..Len(Usable) : ScheduledFrom(Usable[i])
        /\ (StructuredWindows = << >> /\ Usable = << >> /\ ConstraintWindows # << >>) =>
               ScheduledFrom(FirstOf(ConstraintWindows))

\* "Tue, 02/11: 1pm-3pm" with the hint candidate "Saturday 3:00 PM"
C12_HintOverText ==
    /\ IsProcess(ret)
    /\ ret.email.body = "tue_1pm_3pm"
    /\ Usable = <<AiCandidate(5, 15 * 60, 15 * 60 + 30, 90)>>
    /\ ScheduledFrom(AiCandidate(5, 15 * 60, 15 * 60 + 30, 90))

\* C13: a hint with needs_clarification = true gives a clarification that
\* carries the question of the hint, or the generic question when the hint
\* has none, and nothing is scheduled, whatever candidates the hint lists.
C13_HintClarificationWins ==
    (IsProcess(ret) /\ ret.ai_parsed.present /\ ret.ai_parsed.needs_clarification) =>
        /\ ret.decision.action = "clarify"
        /\ ret.decision.question =
              (IF ret.ai_parsed.clarifying_question # ""
               THEN ret.ai_parsed.clarifying_question ELSE GenericQuestion)
        /\ store.last_candidate = ret.was.last_candidate

C13_ScheduledDespiteHint ==
    /\ IsProcess(ret)
    /\ ret.ai_parsed.needs_clarification
    /\ ret.ai_parsed.clarifying_question = HintQuestion
    /\ Usable # << >>
    /\ ret.email.body = "thanks"
    /\ ret.decision.action = "schedule"

\* C20: of the candidates of the hint that name a weekday the one with the
\* highest confidence is chosen, and of several with that confidence the
\* first in the list.
C20_BestCandidateFirstOfTies ==
    (IsProcess(ret) /\ Usable # << >>) =>
        \E i \in 1..Len(Usable) :
            /\ ret.decision.action = "schedule"
            /\ ret.decision.chosen_candidate = Usable[i]
            /\ \A j \in 1..Len(Usable) : Usable[j].confidence <= Usable[i].confidence
            /\ \A j \in 1..(i - 1) : Usable[j].confidence < Usable[i].confidence

\* a lower candidate first, then two different candidates of the highest
\* confidence
C20_TieAfterLower ==
    /\ IsProcess(ret)
    /\ Len(Usable) = 3
    /\ Usable[1].confidence < Usable[2].confidence
    /\ Usable[3].confidence = Usable[2].confidence
    /\ Usable[3] # Usable[2]
    /\ ret.decision.chosen_candidate = Usable[2]

\* a line "<day>: <time>" or "<day>: <time>-<time>" whose times have an hour
\* of at most 12 and no am/pm
BareHour(tok) == tok.ok /\ tok.ampm = "" /\ tok.h <= 12

BareDayTime(body_text) ==
    \E i \in 1..Len(body_text) :
        /\ body_text[i].kind = "day"
        /\ \/ BareHour(body_text[i].single) /\ ~body_text[i].has_range_word
           \/ \E k \in 1..Len(body_text[i].slots) :
                 /\ body_text[i].slots[k].split
                 /\ BareHour(body_text[i].slots[k].s)
                 /\ BareHour(body_text[i].slots[k].e)

\* C14: a day with a clock time of hour 12 or less and no am/pm ("Tue: 10",
\* "Tue: 1-3") gives no window and no schedule; the decision is a
\* clarification.
C14_BareHourAsksAmPm ==
    (IsProcess(ret) /\ BareDayTime(Bodies[ret.email.body]) /\ Usable = << >>) =>
        /\ ConstraintWindows = << >>
        /\ ret.decision.action = "clarify"
        /\ store.last_candidate = ret.was.last_candidate

\* "Tue: 10" is scheduled for Tuesday 10:00-11:00
C14_BareHourScheduled ==
    /\ IsProcess(ret)
    /\ ret.email.body = "tue_10"
    /\ ret.ai_parsed = NoHint
    /\ ScheduledFrom([set |-> TRUE, weekday |-> 1, start_minute |-> 10 * 60,
                      end_minute |-> 11 * 60, confidence |-> 100])

\* the email names an am/pm time and no day, and its body gives no window
TimeOnly(e) ==
    /\ e.time_of_day.ok
    /\ ~e.time_of_day.relative_day
    /\ parse_availability(Bodies[e.body]).windows = << >>
    /\ parse_constraints(Bodies[e.body], Now.weekday).windows = << >>

\* the email is one line that names weekdays and nothing else
DayOnly(e) ==
    /\ ~e.time_of_day.ok
    /\ Len(Bodies[e.body]) = 1
    /\ Bodies[e.body][1].kind = "text"
    /\ Bodies[e.body][1].feat.dows # {}
    /\ Bodies[e.body][1].feat = [NoFeat EXCEPT !.dows = Bodies[e.body][1].feat.dows]

\* C15: while a clarification is open and a candidate is retained, a reply
\* with only a time is scheduled on the retained day at that time, and a
\* reply with only a day on that day at the retained time.
C15_FollowUpMerges ==
    (/\ IsProcess(ret)
     /\ ret.was.state = "CLARIFICATION_LOOP"
     /\ ret.was.last_candidate.set
     /\ Usable = << >>) =>
        /\ TimeOnly(ret.email) =>
              /\ ret.decision.action = "schedule"
              /\ store.last_candidate.weekday = ret.was.last_candidate.weekday
              /\ store.last_candidate.start_minute = ret.email.time_of_day.minutes
        /\ DayOnly(ret.email) =>
              /\ ret.decision.action = "schedule"
              /\ store.last_candidate.weekday \in Bodies[ret.email.body][1].feat.dows
              /\ store.last_candidate.start_minute = ret.was.last_candidate.start_minute

\* Saturday 3:00 PM is retained, the reply "Tuesday" is scheduled at 9:00 AM
C15_DayOnlyGetsDefault ==
    /\ IsProcess(ret)
    /\ ret.was.state = "CLARIFICATION_LOOP"
    /\ ret.was.last_candidate = AiCandidate(5, 15 * 60, 15 * 60 + 30, 90)
    /\ ret.email.body = "tuesday"
    /\ ret.decision.action = "schedule"
    /\ store.last_candidate.weekday = 1
    /\ store.last_candidate.start_minute = 9 * 60

\* the time-only half: Saturday is retained, "3pm" is scheduled on Saturday
C15_TimeOnlyMerged ==
    /\ IsProcess(ret)
    /\ ret.was.state = "CLARIFICATION_LOOP"
    /\ ret.was.last_candidate.weekday = 5
    /\ TimeOnly(ret.email)
    /\ ScheduledFrom(_candidate_from_time_only(ret.email.time_of_day.minutes, 5,
                                               DEFAULT_DURATION_MINUTES))

----------------------------------------------------------------------------
(* Properties of the structured parser (SpecParse)                         *)

IsParse(r) == r.op = "parse_availability"

\* the structured lines of a text
MmddLines(text) == {i \in 1..Len(text) : text[i].kind = "mmdd"}

\* the text without the lines whose MM/DD is no calendar date
WithoutBadDates(text) == SelectSeq(text, LAMBDA l : l.kind = "mmdd" => l.date_ok)

\* C17: parse_availability never aborts: lines and slots it cannot read,
\* lines with an MM/DD that is no calendar date among them, are skipped and
\* the windows of the other lines are returned.
C17_NeverAborts ==
    IsParse(ret) =>
        /\ ~ret.result.raised
        /\ ret.result.windows = parse_availability(WithoutBadDates(ret.text)).windows

\* "02/11: 1pm-3pm" and "02/30: 1pm-2pm": the exception ends the parse
C17_InvalidDateAborts ==
    /\ IsParse(ret)
    /\ ret.text = << MmddLine(-1, 1, TRUE, <<Slot(Tok(1, 0, "pm"), Tok(3, 0, "pm"))>>),
                     MmddLine(-1, 20, FALSE, <<Slot(Tok(1, 0, "pm"), Tok(2, 0, "pm"))>>) >>
    /\ ret.result.raised

\* both endpoints of the slot lack am/pm and have an hour below 13
BareSlot(slot) == slot.split /\ BareHour(slot.s) /\ BareHour(slot.e)

HasBareSlot(text) ==
    \E i \in MmddLines(text) : \E k \in 1..Len(text[i].slots) : BareSlot(text[i].slots[k])

\* (i, k) is the first bare slot of the text
FirstBareSlot(text, i, k) ==
    /\ i \in MmddLines(text) /\ k \in 1..Len(text[i].slots)
    /\ BareSlot(text[i].slots[k])
    /\ \A k2 \in 1..(k - 1) : ~BareSlot(text[i].slots[k2])
    /\ \A i2 \in MmddLines(text) :
          i2 < i => \A k2 \in 1..Len(text[i2].slots) : ~BareSlot(text[i2].slots[k2])

WithoutBareSlots(text) ==
    [i \in 1..Len(text) |->
        [text[i] EXCEPT !.slots = SelectSeq(@, LAMBDA slot : ~BareSlot(slot))]]

\* C18: a slot whose endpoints both lack am/pm and have an hour below 13
\* makes the result ask, with the first such slot in the question; it gives
\* no window, and the windows of the other slots and lines are returned.
C18_BareSlotAsks ==
    (IsParse(ret) /\ HasBareSlot(ret.text)) =>
        /\ ~ret.result.raised
        /\ ret.result.needs_clarification
        /\ \E i \in 1..Len(ret.text) : \E k \in 1..Len(ret.text[i].slots) :
              /\ FirstBareSlot(ret.text, i, k)
              /\ ret.result.clarification_question =
                     AmbiguousExample(ret.text[i].slots[k], ret.text[i].day)
        /\ ret.result.windows = parse_availability(WithoutBareSlots(ret.text)).windows

\* "02/12: 1-3" and "02/30: 1pm-2pm": no question, the parse is aborted
C18_AbortedBeforeAsking ==
    /\ IsParse(ret)
    /\ ret.text = << MmddLine(-1, 2, TRUE, <<Slot(Tok(1, 0, ""), Tok(3, 0, ""))>>),
                     MmddLine(-1, 20, FALSE, <<Slot(Tok(1, 0, "pm"), Tok(2, 0, "pm"))>>) >>
    /\ ret.result.raised
    /\ ~ret.result.needs_clarification

\* the same with the aborted parses left out
C18_BareSlotAsksUnlessAborted ==
    (IsParse(ret) /\ HasBareSlot(ret.text) /\ ~ret.result.raised) =>
        /\ ret.result.needs_clarification
        /\ \E i \in 1..Len(ret.text) : \E k \in 1..Len(ret.text[i].slots) :
              /\ FirstBareSlot(ret.text, i, k)
              /\ ret.result.clarification_question =
                     AmbiguousExample(ret.text[i].slots[k], ret.text[i].day)
        /\ ret.result.windows = parse_availability(WithoutBareSlots(ret.text)).windows

\* C19: two parsed endpoints of which one has am/pm are never ambiguous, the
\* endpoint without gets the meridiem of the other; and every window of the
\* result has 0 <= start_minute < end_minute <= 1440.
C19_CoercedAndInRange ==
    IsParse(ret) =>
        /\ \A i \in MmddLines(ret.text) : \A k \in 1..Len(ret.text[i].slots) :
              \A ps \in {_parse_time(ret.text[i].slots[k].s)} :
              \A pe \in {_parse_time(ret.text[i].slots[k].e)} :
                 (ps.ok /\ pe.ok /\ (ps.ampm # "" \/ pe.ampm # "")) =>
                    /\ _coerce_ampm(ps, pe).ok
                    /\ _coerce_ampm(ps, pe).s =
                          (IF ps.ampm = "" THEN ParsedTime(ps.hour, ps.minute, pe.ampm) ELSE ps)
                    /\ _coerce_ampm(ps, pe).e =
                          (IF pe.ampm = "" THEN ParsedTime(pe.hour, pe.minute, ps.ampm) ELSE pe)
        /\ \A n \in 1..Len(ret.result.windows) :
              /\ 0 <= ret.result.windows[n].start_minute
              /\ ret.result.windows[n].start_minute < ret.result.windows[n].end_minute
              /\ ret.result.windows[n].end_minute <= 1440

\* "02/11: 1pm-23": the end gets "pm" and is clamped to 24:00
C19_CopiedAndClamped ==
    /\ IsParse(ret)
    /\ ret.text = <<MmddLine(-1, 1, TRUE, <<Slot(Tok(1, 0, "pm"), Tok(23, 0, ""))>>)>>
    /\ ret.result.windows = <<TimeWindow(1, 13 * 60, 24 * 60)>>

----------------------------------------------------------------------------
(* Further properties of the conversation engine (SpecEngine)              *)

\* the exception of "02/30: 1pm-3pm" leaves process_incoming_email as well:
\* no decision is returned and the thread item is not written
C16_EngineRaised ==
    /\ IsProcess(ret)
    /\ ret.email.body = "bad_date"
    /\ ret.decision.raised
    /\ store = ret.was

----------------------------------------------------------------------------
(* Properties of the AI call (SpecAi)                                      *)

\* the first two calls of the model both fail, or the case record cannot be
\* written
AiFailed ==
    \/ ~ret.responses[1].ok /\ ~ret.responses[2].ok
    \/ ~ret.cases_ok

\* C21: the model is called at most twice; parse_email does not raise and
\* returns ok = false when the call failed; the decision then is the one
\* process_incoming_email takes for the same text and thread item without
\* a hint.
C21_FailedCallIsNoHint ==
    /\ inv <= 2
    /\ (ret.op \in {"parse_email", "process_incoming_email"} /\ AiFailed) =>
           ~ret.ai_result.ok /\ ~ret.ai_result.raised
    /\ (ret.op = "process_incoming_email" /\ AiFailed) =>
           /\ ret.decision = process_incoming_email(ret.was, Bodies[ret.email.body],
                                 ret.email.time_of_day, NoHint, Now.weekday)
           /\ store = ret.decision.item

\* both calls failed although the third would have answered; "Tue, 02/11:
\* 1pm-3pm" is scheduled from the text
C21_BothAttemptsFailed ==
    /\ ret.op = "process_incoming_email"
    /\ inv = 2
    /\ ~ret.responses[1].ok /\ ~ret.responses[2].ok /\ ret.responses[3].ok
    /\ ret.email.body = "tue_1pm_3pm"
    /\ ret.decision.action = "schedule"
    /\ ret.decision.chosen_candidate.weekday = 1

----------------------------------------------------------------------------
(* Further properties of the entrypoint (SpecMsg)                          *)

CoordinationIntents == {"COORDINATE_MEETING", "MULTI_PARTICIPANT_SCHEDULING", "NEW_REQUEST"}

\* the message asks for a meeting of the sender with at least two others
IsCoordinationRequest(m) ==
    /\ Len(m.others) >= 2
    /\ m.ai_parsed.intent \in CoordinationIntents \/ m.keyword

\* C22: a coordination thread is created only for a message to at least two
\* participants besides the sender whose hint has a coordination intent or
\* whose body has a coordination keyword.
C22_ThreadOnlyForCoordinationRequest ==
    [][ \A t \in ThreadIds :
          (~store.coord[t].exists /\ store'.coord[t].exists) =>
              \E m \in Messages : /\ m.message_id = ret'.message_id
                                  /\ m.thread_id = t
                                  /\ IsCoordinationRequest(m) ]_vars

\* "thanks!" from alice with bob in copy opens the thread T1
C22_ThreadForOneRecipient ==
    /\ ret.op = "handle_ses_event"
    /\ ret.message_id = "m1"
    /\ ret.action = "coordination"
    /\ inv = 1
    /\ store.coord["T1"].exists
    /\ store.coord["T1"].roster = <<"alice", "bob">>

\* the request to two people with a keyword opens T3
C22_ThreadForRequest ==
    /\ ret.message_id = "m12"
    /\ inv = 1
    /\ store.coord["T3"].exists

----------------------------------------------------------------------------
(* Properties of candidate_to_datetimes (SpecSched)                        *)

IsDatetimes(r) == r.op = "candidate_to_datetimes"

\* "<Weekday> H:MM AM/PM": a weekday, an hour of the 12-hour clock, am or pm
Stated(l) ==
    /\ ~l.empty /\ l.time.ok
    /\ l.time.h \in 1..12 /\ l.time.m \in 0..59 /\ l.time.ampm \in {"am", "pm"}

\* the minute of the day a stated time names
StatedMinute(l) ==
    (l.time.h % 12) * 60 + l.time.m + (IF l.time.ampm = "pm" THEN 12 * 60 ELSE 0)

\* the occurrence d days from today of the stated weekday and time is after now
OccursAfterNow(r, d) ==
    /\ (r.today_weekday + d) % 7 = r.candidate.start_local.weekday
    /\ (d > 0 \/ StatedMinute(r.candidate.start_local) > r.now_minute)

\* C24: for a candidate whose start_local is "<Weekday> H:MM AM/PM",
\* candidate_to_datetimes returns a start at the stated local time on the nearest
\* occurrence of that weekday that is strictly after now (today when the stated
\* time is still ahead, otherwise the next such weekday), never more than seven
\* days ahead, and an end strictly after the start.
C24_NearestOccurrenceAfterNow ==
    (/\ IsDatetimes(ret)
     /\ Stated(ret.candidate.start_local)
     /\ ret.candidate.start_local.weekday \in 0..6
     /\ Stated(ret.candidate.end_local)) =>
        /\ ~ret.result.raised
        /\ ret.result.start.minute = StatedMinute(ret.candidate.start_local)
        /\ ret.result.start.day \in 0..7
        /\ OccursAfterNow(ret, ret.result.start.day)
        /\ \A d \in 0..7 : OccursAfterNow(ret, d) => ret.result.start.day <= d
        /\ (ret.result.start.day * 24 * 60 + ret.result.start.minute) - ret.now_minute
               <= 7 * 24 * 60
        /\ \/ ret.result.end.day > ret.result.start.day
           \/ /\ ret.result.end.day = ret.result.start.day
              /\ ret.result.end.minute > ret.result.start.minute

\* Monday 15:01, "Monday 3:00 PM" to "3:30 PM": the Monday a week from today
C24_SameWeekdayAlreadyPast ==
    /\ IsDatetimes(ret)
    /\ ret.today_weekday = 0 /\ ret.now_minute = 15 * 60 + 1
    /\ ret.candidate.start_local = Local(0, Tok(3, 0, "pm"))
    /\ ret.candidate.end_local = Local(NoWeekday, Tok(3, 30, "pm"))
    /\ ret.result = [raised |-> FALSE, start |-> Moment(7, 15 * 60),
                     end |-> Moment(7, 15 * 60 + 30)]

----------------------------------------------------------------------------
(* Properties of parse_constraints (SpecConstraints)                       *)

IsConstraints(r) == r.op = "parse_constraints"

SaysNextWeek(text) == \E i \in 1..Len(text) : text[i].feat.next_week

\* the offset from today of the first Monday strictly after today
FollowingMonday(today_weekday) == 7 - today_weekday

InFollowingWeek(day, today_weekday) ==
    /\ day >= FollowingMonday(today_weekday)
    /\ day <= FollowingMonday(today_weekday) + 6

\* C25: when the text contains "next week", every day parse_constraints resolves
\* lies in the Monday-to-Sunday week that starts on the first Monday strictly
\* after today, whatever the weekday of today is; none lies in the current week.
C25_NextWeekNeverCurrentWeek ==
    (IsConstraints(ret) /\ SaysNextWeek(ret.text)) =>
        \A i \in 1..Len(ret.result.windows) :
            InFollowingWeek(ret.result.windows[i].day, ret.today_weekday)

\* Monday, "Next week works for me." above "Tue 1pm - 3pm": tomorrow
C25_DayLineWithoutTheWords ==
    /\ IsConstraints(ret)
    /\ ret.today_weekday = 0
    /\ ret.text = <<NextWeekLine, DayRange(1, FALSE)>>
    /\ ret.result.windows = <<TimeWindow(1, 13 * 60, 15 * 60)>>

\* the claim where every line that gives a window has the words itself
C25_NextWeekOnTheLine ==
    (/\ IsConstraints(ret)
     /\ SaysNextWeek(ret.text)
     /\ \A i \in 1..Len(ret.text) : ret.text[i].kind = "day" => ret.text[i].feat.next_week) =>
        /\ ret.result.windows # << >>
        /\ \A i \in 1..Len(ret.result.windows) :
              InFollowingWeek(ret.result.windows[i].day, ret.today_weekday)

\* Monday, "Tue 1pm - 3pm, next week": the Tuesday eight days from today
C25_MondayToFollowingWeek ==
    /\ IsConstraints(ret)
    /\ ret.today_weekday = 0
    /\ ret.text = <<DayRange(1, TRUE)>>
    /\ ret.result.windows = <<TimeWindow(8, 13 * 60, 15 * 60)>>

----------------------------------------------------------------------------
(* Properties of CoordinationStore (SpecStore)                             *)

\* C26: get(thread_id) after put(thread) returns a thread equal to the stored
\* one in thread_id, organizer, timezone, meeting_duration_minutes, subject,
\* status, deadline_at, scheduled_start, scheduled_end, scheduling_rationale and
\* pending_candidate, and for every participant, under its lower-cased email, in
\* has_responded, status, parsed_windows, needs_clarification,
\* clarification_question, responded_at, requested_at and last_reminded_at.
C26_GetAfterPut ==
    ret.op = "get" =>
        /\ ret.got.found
        /\ ret.got.thread_id = ret.thread.thread_id
        /\ ret.got.organizer_email = ret.thread.organizer_email
        /\ ret.got.timezone = ret.thread.timezone
        /\ ret.got.meeting_duration_minutes = ret.thread.meeting_duration_minutes
        /\ ret.got.subject = ret.thread.subject
        /\ ret.got.status = ret.thread.status
        /\ ret.got.deadline_at = ret.thread.deadline_at
        /\ ret.got.scheduled_start = ret.thread.scheduled_start
        /\ ret.got.scheduled_end = ret.thread.scheduled_end
        /\ ret.got.scheduling_rationale = ret.thread.scheduling_rationale
        /\ ret.got.pending_candidate = ret.thread.pending_candidate
        /\ DOMAIN ret.got.participants = {Lower(e) : e \in DOMAIN ret.thread.participants}
        /\ \A e \in DOMAIN ret.thread.participants :
              LET p == ret.thread.participants[e]
                  q == ret.got.participants[Lower(e)]
              IN /\ q.has_responded = p.has_responded
                 /\ q.status = p.status
                 /\ q.parsed_windows = p.parsed_windows
                 /\ q.needs_clarification = p.needs_clarification
                 /\ q.clarification_question = p.clarification_question
                 /\ q.responded_at = p.responded_at
                 /\ q.requested_at = p.requested_at
                 /\ q.last_reminded_at = p.last_reminded_at

\* a scheduled thread read back: "Bob" answered with two windows and is found
\* under "bob", alice was reminded
C26_ReadBack ==
    /\ ret.op = "get"
    /\ ret.got.found
    /\ ret.thread.status = SCHEDULED
    /\ "Bob" \in DOMAIN ret.thread.participants
    /\ Len(ret.got.participants["bob"].parsed_windows) = 2
    /\ ret.got.participants["bob"].status = "RESPONDED"
    /\ ret.got.participants["alice"].last_reminded_at = At(1, 9 * 60)
    /\ ret.got.scheduled_start = At(1, 13 * 60)

----------------------------------------------------------------------------
(* Properties of handle_incoming_message (SpecContext)                     *)

\* C27: handle_incoming_message returns READY and moves to CONFIRMATION_CHECK
\* exactly when neither the participants nor the time are missing; otherwise it
\* returns the one question of the first missing field, participants before time,
\* and does not enter CONFIRMATION_CHECK.  The intent is inferred on the first
\* message only (INTENT_DETECTION to INFO_GATHERING) and kept afterwards.
C27_ReadyOrOneQuestion ==
    [][ inv' = inv + 1 =>
          LET no_participants == ret.ctx.memory.participants = << >>
              no_time == ret.ctx.memory.time = [kind |-> "none"]
              first == ret.ctx.state = "INTENT_DETECTION"
          IN /\ (ret'.signal = [kind |-> "str", value |-> "READY"])
                   <=> (~no_participants /\ ~no_time)
             /\ (~no_participants /\ ~no_time) => ret'.ctx.state = "CONFIRMATION_CHECK"
             /\ no_participants =>
                   /\ ret'.reply = "Who should be in the meeting?"
                   /\ ret'.signal = [kind |-> "none"]
             /\ (~no_participants /\ no_time) =>
                   /\ ret'.reply = "When should it be scheduled?"
                   /\ ret'.signal = [kind |-> "none"]
             /\ (no_participants \/ no_time) =>
                   /\ ret'.ctx.state = (IF first THEN "INFO_GATHERING" ELSE ret.ctx.state)
                   /\ (ret'.ctx.state = "CONFIRMATION_CHECK"
                          => ret.ctx.state = "CONFIRMATION_CHECK")
             /\ ret'.ctx.memory.participants = ret.ctx.memory.participants
             /\ ret'.ctx.memory.time = ret.ctx.memory.time
             /\ ret'.ctx.state # "INTENT_DETECTION"
             /\ first => ret'.ctx.memory.intent =
                            (IF ret'.text.reschedule THEN "reschedule"
                             ELSE IF ret'.text.schedule_or_meeting THEN "schedule"
                             ELSE "unknown")
             /\ ~first => ret'.ctx.memory.intent = ret.ctx.memory.intent ]_vars

\* a later message that says "reschedule" after a first one that said "meeting",
\* nothing known yet: the question for the participants, the intent still schedule
C27_SecondMessageAsksParticipants ==
    /\ ret.op = "handle_incoming_message"
    /\ inv = 2
    /\ ret.text = Words(TRUE, TRUE)
    /\ ret.ctx.memory = [intent |-> "schedule", participants |-> << >>, time |-> None]
    /\ ret.ctx.state = INFO_GATHERING
    /\ ret.reply = "Who should be in the meeting?"

----------------------------------------------------------------------------
(* Properties of a round of replies (SpecRound)                            *)

\* the replies of the round share an interval of the meeting's length on one day
ShareInterval(round, duration) ==
    \E i \in 1..Len(round.replies) :
       \E k \in 1..Len(ReplyWindows(round.replies[i].text)) :
          LET d == ReplyWindows(round.replies[i].text)[k].day
              s == ReplyWindows(round.replies[i].text)[k].start_minute
          IN \A j \in 1..Len(round.replies) :
                \E l \in 1..Len(ReplyWindows(round.replies[j].text)) :
                   LET w == ReplyWindows(round.replies[j].text)[l]
                   IN w.day = d /\ w.start_minute <= s /\ s + duration <= w.end_minute

\* the try_schedule that follows the last reply of a complete round
AfterLastReply ==
    /\ IsIngest(ret) /\ IsTrySchedule(ret')
    /\ RoundComplete(inv)
    /\ ShareInterval(inv, thread.meeting_duration_minutes)

\* C28: from a thread that is not SCHEDULED, when every participant sends one
\* unambiguous reply whose windows end before 24:00 and share an interval of the
\* meeting's length on one day, and no other reply comes in between, the
\* try_schedule after the last of them returns a plan and sets SCHEDULED.
C28_RoundOfRepliesSchedules ==
    [][ AfterLastReply => (ret'.plan.set /\ thread'.status = SCHEDULED) ]_vars

\* alice had offered Wednesday; bob's Tuesday reply was tried against it and both
\* were reset, so after alice's Tuesday reply the thread waits for bob again
C28_WaitingAfterRound ==
    /\ IsTrySchedule(ret) /\ ~ret.plan.set
    /\ inv = [replies |-> <<[who |-> "bob", text |-> "tue_1pm_3pm"],
                            [who |-> "alice", text |-> "tue_14_16"]>>,
              tried |-> TRUE]
    /\ thread.status = WAITING
    /\ ~thread.participants["bob"].has_responded

\* the claim for the rounds no try_schedule interrupts
C28_UninterruptedRoundSchedules ==
    [][ (AfterLastReply /\ ~inv.tried) =>
            (ret'.plan.set /\ thread'.status = SCHEDULED) ]_vars

----------------------------------------------------------------------------
(* Further properties of the reconciler (SpecRecon, SpecUnion)             *)

\* C29: every slot find_earliest_overlap returns lies, for each participant of
\* the thread, inside one of that participant's parsed windows on the slot's
\* day: window start <= slot start and slot end <= window end.
C29_SlotInsideAWindowOfEach ==
    (Reconciled /\ ret.slot.kind = "slot") =>
        /\ ret.slot.end.day = ret.slot.start.day
        /\ ret.slot.start.minute < ret.slot.end.minute
        /\ \A e \in Emails(thread) :
              \E i \in 1..Len(thread.participants[e].parsed_windows) :
                 LET w == thread.participants[e].parsed_windows[i]
                 IN /\ w.day = ret.slot.start.day
                    /\ w.start_minute <= ret.slot.start.minute
                    /\ ret.slot.end.minute <= w.end_minute

\* an hour for 13:00-15:00 and <<14:30-15:30, 14:00-16:00>>: 14:00-15:00
C29_SecondWindowOffered ==
    /\ Reconciled
    /\ thread.roster = <<"alice", "bob">>
    /\ thread.meeting_duration_minutes = 60
    /\ thread.participants["alice"].parsed_windows = <<TimeWindow(0, 780, 900)>>
    /\ thread.participants["bob"].parsed_windows =
           <<TimeWindow(0, 870, 930), TimeWindow(0, 840, 960)>>
    /\ ret.slot = ScheduledSlot(0, 840, 900)

\* e is available in minute m of day d: the union of the windows
Available(t, e, d, m) ==
    \E i \in 1..Len(t.participants[e].parsed_windows) :
        LET w == t.participants[e].parsed_windows[i]
        IN w.day = d /\ w.start_minute <= m /\ m < w.end_minute

\* everybody is available for the whole meeting from minute s of day d
AllAvailable(t, d, s) ==
    \A e \in Emails(t) :
        \A m \in s..(s + t.meeting_duration_minutes - 1) : Available(t, e, d, m)

\* the earliest such interval starts where a window starts
AvailableStarts(t) == {w \in AllWindows(t) : AllAvailable(t, w.day, w.start_minute)}

\* C30: when on some day there is an interval of meeting_duration_minutes in
\* which every participant is available, the availability of a participant
\* being the union of their windows, find_earliest_overlap returns a slot and
\* that slot is the earliest such interval.
C30_EarliestOfTheUnion ==
    (Reconciled /\ AvailableStarts(thread) # {}) =>
        /\ ret.slot.kind = "slot"
        /\ \A w \in AvailableStarts(thread) :
              \/ ret.slot.start.day < w.day
              \/ /\ ret.slot.start.day = w.day
                 /\ ret.slot.start.minute <= w.start_minute

\* an hour, alice free 13:00-13:30 and 13:30-14:00, bob 13:00-14:00: no slot
C30_AdjacentWindowsNotJoined ==
    /\ Reconciled
    /\ thread.meeting_duration_minutes = 60
    /\ thread.participants["alice"].parsed_windows =
           <<TimeWindow(0, 780, 810), TimeWindow(0, 810, 840)>>
    /\ thread.participants["bob"].parsed_windows = <<TimeWindow(0, 780, 840)>>
    /\ ret.slot = NoSlot

\* the claim for threads in which every participant has one window
C30_EarliestOfSingleWindows ==
    (/\ Reconciled
     /\ \A e \in Emails(thread) : Len(thread.participants[e].parsed_windows) = 1
     /\ AvailableStarts(thread) # {}) =>
        /\ ret.slot.kind = "slot"
        /\ \A w \in AvailableStarts(thread) :
              \/ ret.slot.start.day < w.day
              \/ /\ ret.slot.start.day = w.day
                 /\ ret.slot.start.minute <= w.start_minute

\* C31: for valid windows find_earliest_overlap does not raise, and it returns
\* a slot whenever the intersection of all lists has a window at least as long
\* as the meeting, also when that window ends at 24:00 and the slot with it.
C31_NeverRaisesOnValidWindows ==
    Reconciled =>
        /\ ret.slot.kind # "raise"
        /\ LongEnough(thread) # {} => ret.slot.kind = "slot"

\* an hour in the only window 23:00-24:00: time(hour=24) raises
C31_SlotEndingAtMidnightRaises ==
    /\ Reconciled
    /\ thread.roster = <<"alice">>
    /\ thread.meeting_duration_minutes = 60
    /\ thread.participants["alice"].parsed_windows = <<TimeWindow(0, 23 * 60, 24 * 60)>>
    /\ \A w \in AllWindows(thread) : 0 <= w.start_minute /\ w.start_minute < w.end_minute
                                       /\ w.end_minute <= 1440
    /\ ret.slot.kind = "raise"

\* the claim for the slots that end before 24:00
C31_SlotBeforeMidnight ==
    (Reconciled /\ LongEnough(thread) # {}
        /\ \A w \in LongEnough(thread) :
              w.start_minute + thread.meeting_duration_minutes < 24 * 60) =>
        ret.slot.kind = "slot"

----------------------------------------------------------------------------
(* Properties of the scheduled thread (SpecDuration)                       *)

ScheduledMinutes(t) ==
    (t.scheduled_end.day - t.scheduled_start.day) * 24 * 60
        + t.scheduled_end.minute - t.scheduled_start.minute

C32_ScheduledForMeetingDuration ==
    thread.status = SCHEDULED =>
        /\ thread.scheduled_start.set
        /\ thread.scheduled_end.set
        /\ ScheduledMinutes(thread) = thread.meeting_duration_minutes

----------------------------------------------------------------------------
(* Further properties of the coordinator (Spec)                            *)

\* C33: in every thread state each participant's status is RESPONDED exactly
\* when has_responded is true and PENDING otherwise, also for a participant who
\* has to answer again after the reset that follows a failed reconciliation.
C33_StatusFollowsHasResponded ==
    \A e \in Emails(thread) :
        thread.participants[e].status =
            (IF thread.participants[e].has_responded THEN "RESPONDED" ELSE "PENDING")

\* Tuesday against Wednesday: both are reset and both are still RESPONDED
C33_ResetLeavesResponded ==
    /\ IsTrySchedule(ret) /\ ~ret.plan.set /\ ~ret.raised
    /\ ret.was = READY_TO_SCHEDULE
    /\ thread.status = WAITING
    /\ \A e \in Emails(thread) :
          /\ ~thread.participants[e].has_responded
          /\ thread.participants[e].parsed_windows = << >>
          /\ thread.participants[e].status = "RESPONDED"

\* the claim for the sender after a reply that was parsed
C33_SenderRespondedAfterReply ==
    [][ (IsIngest(ret') /\ ret'.who \in Emails(thread) /\ ~ret'.raised) =>
            /\ thread'.participants[ret'.who].has_responded
            /\ thread'.participants[ret'.who].status = "RESPONDED" ]_vars

\* C34: ingest_participant_reply from an address that is no key of
\* thread.participants returns no actions and leaves the status of the thread
\* and every field of every participant as they were.
C34_UnknownSenderChangesNothing ==
    [][ (IsIngest(ret') /\ ret'.who \notin Emails(thread)) =>
            /\ ret'.actions = << >>
            /\ ~ret'.raised
            /\ thread'.status = thread.status
            /\ thread'.scheduled_start = thread.scheduled_start
            /\ thread'.scheduled_end = thread.scheduled_end
            /\ Emails(thread') = Emails(thread)
            /\ \A e \in Emails(thread) : thread'.participants[e] = thread.participants[e] ]_vars

\* mallory writes "02/11: 1-3" on the scheduled thread of alice and bob
C34_StrangerOnScheduledThread ==
    /\ IsIngest(ret)
    /\ ret.who = "mallory" /\ ret.text = "tue_1_3"
    /\ ret.was = SCHEDULED
    /\ thread.status = SCHEDULED
    /\ ret.actions = << >>
    /\ \A e \in Emails(thread) : ~thread.participants[e].needs_clarification

----------------------------------------------------------------------------
(* Properties of the reminder handler (SpecRemind)                         *)

RemindersTo(e) == {i \in DOMAIN outbox : outbox[i].to = e}

\* the reminders the step from outbox to outbox' sent
NewReminders == {outbox'[i].to : i \in (DOMAIN outbox') \ (DOMAIN outbox)}

\* C35: over the runs of the reminder handler a participant receives at most
\* one reminder for the availability request of the thread.
C35_AtMostOneReminder ==
    \A e \in {"alice", "bob"} : Cardinality(RemindersTo(e)) <= 1

\* a run of the handler has just sent bob a second reminder: the inbound
\* entrypoint saved the thread after the first one
C35_RemindedAgainAfterSave ==
    /\ ret.op = "lambda_handler"
    /\ Cardinality(RemindersTo("bob")) = 2
    /\ outbox[Len(outbox)].to = "bob"
    /\ get(store).participants["bob"].last_reminded_at = At(0, inv.now)

\* C35, the conditions of one run: a reminder goes only to a participant of a
\* thread that is not scheduled or closed, who is pending, was not reminded
\* and was asked at least the delay ago, as the handler reads the stored thread,
\* and the run records the time in the stored thread.
C35_SendsOnlyWhenDue ==
    [][ \A e \in NewReminders :
          /\ get(store).status # SCHEDULED
          /\ get(store).reminder_status \notin {"SCHEDULED", "CLOSED"}
          /\ get(store).participants[e].status = "PENDING"
          /\ ~get(store).participants[e].last_reminded_at.set
          /\ \/ /\ get(store).participants[e].requested_at.set
                /\ Minutes(get(store).participants[e].requested_at) + 120 <= inv.now
             \/ /\ ~get(store).participants[e].requested_at.set
                /\ get(store).availability_requests_sent_at.set
                /\ Minutes(get(store).availability_requests_sent_at) + 120 <= inv.now
          /\ get(store').participants[e].last_reminded_at = At(0, inv.now) ]_vars

\* C35, without a save of the inbound entrypoint in between: a run that
\* follows a run never reminds the same participant again.
C35_NextRunSkipsReminded ==
    [][ ret.op = "lambda_handler" => NewReminders \cap {outbox[i].to : i \in DOMAIN outbox} = {} ]_vars

\* the participant records and the thread record of the stored item
Stored(item) == item.coordination_json

\* C36: a load and save of the thread through the store adapter of the
\* inbound entrypoint leaves status, requested_at, last_reminded_at and
\* responded_at of every participant and reminder_status of the thread as
\* they were persisted.
C36_LoadSaveKeepsReminderFields ==
    [][ ret'.op = "load_save" =>
          /\ Stored(store').reminder_status = Stored(store).reminder_status
          /\ \A e \in DOMAIN Stored(store).participants :
                /\ Stored(store').participants[e].status = Stored(store).participants[e].status
                /\ Stored(store').participants[e].requested_at
                      = Stored(store).participants[e].requested_at
                /\ Stored(store').participants[e].last_reminded_at
                      = Stored(store).participants[e].last_reminded_at
                /\ Stored(store').participants[e].responded_at
                      = Stored(store).participants[e].responded_at ]_vars

\* bob was reminded, the entrypoint then loaded and saved the thread, and
\* the item holds no last_reminded_at for bob any more
C36_LastRemindedLost ==
    /\ ret.op = "load_save"
    /\ RemindersTo("bob") # {}
    /\ ~get(store).participants["bob"].last_reminded_at.set

\* C36, the fields the adapter does carry: a load and save keeps the responses
\* of the participants and the state and the times of the thread.
C36_LoadSaveKeepsCoordinationFields ==
    [][ ret'.op = "load_save" =>
          /\ \A f \in {"thread_id", "organizer_email", "timezone", "meeting_duration_minutes",
                       "subject", "status", "deadline_at", "scheduled_start", "scheduled_end",
                       "scheduling_rationale", "pending_candidate",
                       "availability_requests_sent_at"} :
                Stored(store')[f] = Stored(store)[f]
          /\ DOMAIN Stored(store').participants = DOMAIN Stored(store).participants
          /\ \A e \in DOMAIN Stored(store).participants :
                \A f \in {"email", "has_responded", "parsed_windows", "needs_clarification",
                          "clarification_question"} :
                   Stored(store').participants[e][f] = Stored(store).participants[e][f] ]_vars

----------------------------------------------------------------------------
(* Properties of the thread id of a message (SpecThread)                   *)

\* the ids the headers of a message carry
CarriedIds(eml) == {extract_message_ids(eml)[i] : i \in 1..Len(extract_message_ids(eml))}

RepliedTo(eml) == _normalize_message_id(eml.in_reply_to)

\* C37: a reply is handled under the thread id under which the message it
\* replies to was handled.
C37_ReplyOnThreadOfRepliedTo ==
    [][ (/\ ret'.op = "resolve"
         /\ RepliedTo(ret'.eml) \in AllIds
         /\ inv.handled[RepliedTo(ret'.eml)] # NoId)
           => ret'.thread_id = inv.handled[RepliedTo(ret'.eml)] ]_vars

\* the first message was handled as thread#m1 and a later reply to it is
\* handled under the thread id of the second message
C37_ReplyOnOtherThread ==
    /\ ret.op = "resolve"
    /\ RepliedTo(ret.eml) = <<"m", 1>>
    /\ ret.eml.references = << >>
    /\ inv.handled[<<"m", 1>>] = <<"m", 1>>
    /\ ret.thread_id = <<"m", 2>>

\* C37, what resolve_thread_id returns: the alias of the first id, in the
\* order Message-Id, In-Reply-To, References, SES id, that has one in the
\* table; a new thread id, named after the first id, only when none has.
C37_FirstKnownIdDecides ==
    [][ ret'.op = "resolve" =>
          \E c \in {Candidates(ret'.eml, <<"s", inv'.n>>)} :
             /\ CarriedIds(ret'.eml) \subseteq {c[i] : i \in 1..Len(c)}
             /\ \/ /\ \A i \in 1..Len(c) : ~store[c[i]].exists
                   /\ ret'.thread_id = c[1]
                \/ \E i \in 1..Len(c) :
                      /\ store[c[i]].exists
                      /\ \A j \in 1..(i - 1) : ~store[c[j]].exists
                      /\ ret'.thread_id = store[c[i]].thread_id
             /\ \A i \in 1..Len(c) : store'[c[i]] = ThreadAlias(ret'.thread_id) ]_vars

\* C37, messages of one conversation: when the known ids of a message all
\* name one thread, the message is handled under that thread id.
C37_KnownIdsOfOneThread ==
    [][ ret'.op = "resolve" =>
          \A t \in AllIds :
             ( /\ \E id \in CarriedIds(ret'.eml) : store[id].exists
               /\ \A id \in CarriedIds(ret'.eml) : store[id].exists => store[id].thread_id = t )
             => ret'.thread_id = t ]_vars

----------------------------------------------------------------------------
(* Properties of the invite of the single-participant flow (SpecInvite)    *)

Converted == candidate_to_datetimes(ret.chosen_candidate, ret.today_weekday, ret.now_minute)

\* C38: an invite goes out only for the start and end derived from the chosen
\* candidate; a candidate that cannot be converted gets no invite.
C38_InviteOnlyFromCandidate ==
    ret.op = "invite" =>
        /\ ~Converted.raised
        /\ ret.invite = [start |-> Converted.start, end |-> Converted.end]

\* the hint names "Friday 3:00 PM" and no end: the invite is for tomorrow 13:00
C38_InviteForDefaultTime ==
    /\ ret.op = "invite"
    /\ ret.source = "ai"
    /\ ret.chosen_candidate.start_local = Local(4, Tok(3, 0, "pm"))
    /\ ret.chosen_candidate.end_local = NoLocal
    /\ ret.today_weekday = 0
    /\ ret.invite = [start |-> Moment(1, 13 * 60), end |-> Moment(1, 13 * 60 + 30)]

\* C38 for the candidates that convert: the invite has their start and end.
C38_ConvertedCandidateInvited ==
    (ret.op = "invite" /\ ~Converted.raised)
        => ret.invite = [start |-> Converted.start, end |-> Converted.end]

EarliestWindow(ws) == SortWindows(ws, 1, << >>)[1]

InviteMinutes ==
    (ret.invite.end.day - ret.invite.start.day) * 24 * 60
        + ret.invite.end.minute - ret.invite.start.minute

\* C39: a meeting scheduled from windows parsed out of the text starts at the
\* start of the earliest window and lasts the default meeting duration.
C39_EarliestStartDefaultDuration ==
    (ret.op = "invite" /\ ret.source = "text") =>
        /\ ret.invite.start = Moment(EarliestWindow(ret.windows).day,
                                     EarliestWindow(ret.windows).start_minute)
        /\ InviteMinutes = DEFAULT_DURATION_MINUTES

\* "Tuesday afternoon" on a Monday: the invite runs from 13:00 to 17:00
C39_InviteForWholeWindow ==
    /\ ret.op = "invite"
    /\ ret.source = "text"
    /\ ret.windows = <<TimeWindow(1, 13 * 60, 17 * 60)>>
    /\ ret.today_weekday = 0
    /\ ret.invite = [start |-> Moment(1, 13 * 60), end |-> Moment(1, 17 * 60)]

\* C39, what the invite is: for an earliest window within the coming week
\* that is still ahead and ends before midnight, the window itself.
C39_InviteIsEarliestWindow ==
    ( /\ ret.op = "invite" /\ ret.source = "text"
      /\ EarliestWindow(ret.windows).day \in 0..6
      /\ EarliestWindow(ret.windows).end_minute < 24 * 60
      /\ (EarliestWindow(ret.windows).day = 0 => EarliestWindow(ret.windows).start_minute > ret.now_minute) )
    => ret.invite = [start |-> Moment(EarliestWindow(ret.windows).day,
                                      EarliestWindow(ret.windows).start_minute),
                     end |-> Moment(EarliestWindow(ret.windows).day,
                                    EarliestWindow(ret.windows).end_minute)]

====
